---------------------------- MODULE Spec2Model ----------------------------
(***************************************************************************)
(* A model of the front end of pystacklang: the match/expand pipeline and  *)
(* the flow resolver of src/lang.py (Program.parse_tokens and the three    *)
(* coroutines it drives) and the type checker of src/typechecker.py        *)
(* (_TypeChecker.run).                                                     *)
(*                                                                         *)
(* Python objects are modelled with identity: tokens live in `heap`,       *)
(* FlowInfo records in `flows`, Procedure records in `procs`, and lists    *)
(* hold indexes into them, so that an object appended twice, an attribute  *)
(* assigned through an alias and a stale `position` are all visible.       *)
(***************************************************************************)
EXTENDS Naturals, Integers, Sequences, FiniteSets, TLC

(***************************************************************************)
(* Bounds of the model.                                                    *)
(***************************************************************************)
\* free lexemes appended to a program prefix
MaxFree == 3
\* nesting depth of the tokenizer's include stack
MaxNest == 2
\* pointer depth of the types the pure type functions are applied to
MaxDepth == 3
\* the instructions of a program that is run, the largest skip count of a
\* step, the steps of a run
MaxRun == 3
MaxSkip == 1
MaxSteps == 4

None == 0

Min(a, b) == IF a < b THEN a ELSE b

(***************************************************************************)
(* Python list primitives.  Python indexes are 0-based, half-open.         *)
(***************************************************************************)
\* seq[a:b] for 0 <= a, 0 <= b
Slice(s, a, b) == SubSeq(s, a + 1, Min(b, Len(s)))

\* for i in reversed(range(a, b)): seq.pop(i)    -- the list afterwards
PopRange(s, a, b) ==
    IF a >= b THEN s ELSE SubSeq(s, 1, a) \o SubSeq(s, b + 1, Len(s))

\* ... and whether one of these pops raises IndexError
PopRangeFails(s, a, b) == a < b /\ b > Len(s)

\* the dict d with d[k] = v
DictPut(d, k, v) == [x \in DOMAIN d \cup {k} |-> IF x = k THEN v ELSE d[x]]

EmptyDict == [x \in {} |-> None]

(***************************************************************************)
(* Types.  A Type is (name, size, parent); it is modelled by its chain of  *)
(* names from the outermost level to the innermost: PTR[PTR[INT]] is       *)
(* <<"PTR", "PTR", "INT">>, a base type is a chain of length 1.            *)
(***************************************************************************)
ANY  == <<"ANY">>
CHAR == <<"CHAR">>
INT  == <<"INT">>
PTR  == <<"PTR">>
BOOL == <<"BOOL">>

BaseTypes == {ANY, CHAR, INT, PTR, BOOL}

\* Types.PTR[t]
PtrTo(t) == PTR \o t

RECURSIVE PtrN(_, _)
PtrN(t, k) == IF k = 0 THEN t ELSE PtrN(PtrTo(t), k - 1)

\* Type.__eq__: ANY equals anything, otherwise (name, parent) structurally;
\* <<>> stands for a parent that is None.
RECURSIVE TypeEq(_, _)
TypeEq(a, b) ==
    IF a = <<>> /\ b = <<>> THEN TRUE
    ELSE IF a # <<>> /\ Head(a) = "ANY" THEN TRUE
    ELSE IF b # <<>> /\ Head(b) = "ANY" THEN TRUE
    ELSE IF a = <<>> \/ b = <<>> THEN FALSE
    ELSE Head(a) = Head(b) /\ TypeEq(Tail(a), Tail(b))

\* derefType's walk: n is the last node of the chain, p the node before it
\* (p is n when the chain has one node).  It raises ValueError when p == n.
derefRaises(t) ==
    IF Len(t) = 1 THEN TRUE
    ELSE TypeEq(SubSeq(t, Len(t) - 1, Len(t)), SubSeq(t, Len(t), Len(t)))

\* ... otherwise p.parent = None cuts the chain after p, and the copy of t is
\* returned.
derefType(t) == SubSeq(t, 1, Len(t) - 1)

\* StrToType: the base name is s.rstrip('*'); l is the offset the scan of
\* the '*' suffix starts at.  A cast spelling is modelled as <<base, k>>:
\* the base name followed by k stars.
BaseLen(b) == CASE b = "any" -> 3 [] b = "void" -> 4 [] b = "int" -> 3
                [] b = "ptr" -> 3 [] b = "bool" -> 4 [] b = "char" -> 4
                [] b = "byte" -> 4 [] b = "dword" -> 5 [] OTHER -> 0

BaseOffset(b) == CASE b = "any" -> 3 [] b = "void" -> 4 [] b = "int" -> 3
                   [] b = "ptr" -> 3 [] b = "bool" -> 4 [] b = "char" -> 4
                   [] b = "byte" -> 4 [] b = "dword" -> 4 [] OTHER -> 0

BaseType(b) == CASE b = "any" -> ANY [] b = "void" -> ANY [] b = "int" -> INT
                 [] b = "ptr" -> PTR [] b = "bool" -> BOOL [] b = "char" -> CHAR
                 [] b = "byte" -> CHAR [] b = "dword" -> INT [] OTHER -> <<>>

CastBases == {"any", "void", "int", "ptr", "bool", "char", "byte", "dword"}

\* the character of the spelling <<b, k>> at offset i: "*" , a letter, or
\* "" past the end
CharAt(b, k, i) ==
    IF i < BaseLen(b) THEN "x" ELSE IF i < BaseLen(b) + k THEN "*" ELSE ""

RECURSIVE StarScan(_, _, _, _)
StarScan(b, k, l, t) ==
    IF CharAt(b, k, l) = "*" THEN StarScan(b, k, l + 1, PtrTo(t)) ELSE t

\* <<>> is None
StrToType(b, k) ==
    IF b \notin CastBases THEN <<>>
    ELSE StarScan(b, k, BaseOffset(b), BaseType(b))


(***************************************************************************)
(* Lexical tokens (TokenInfo).  The lexer is not part of the sources at    *)
(* hand; a lexeme is its kind and its spelling, and the tokenizer numbers  *)
(* the lexemes it delivers, which stands for the source span.  A CAST      *)
(* lexeme is spelled <<base, stars>>.                                      *)
(***************************************************************************)
W(s)  == [type |-> "WORD",     string |-> s, stars |-> 0]
N(s)  == [type |-> "NUMBER",   string |-> s, stars |-> 0]
S(s)  == [type |-> "STRING",   string |-> s, stars |-> 0]
Q(s)  == [type |-> "CHAR",     string |-> s, stars |-> 0]
O(s)  == [type |-> "OP",       string |-> s, stars |-> 0]
C(b, k) == [type |-> "CAST",   string |-> b, stars |-> k]
NL    == [type |-> "NEW_LINE", string |-> "\n", stars |-> 0]

\* KEYWORDS: spelling -> kind of the token built
KEYWORDS ==
    [ true |-> "OP_BOOL", false |-> "OP_BOOL", dump |-> "OP_DUMP",
      udump |-> "OP_UDUMP", blsh |-> "OP_BLSH", brsh |-> "OP_BRSH",
      band |-> "OP_BAND", bor |-> "OP_BOR", bxor |-> "OP_BXOR",
      cdump |-> "OP_CDUMP", hexdump |-> "OP_HEXDUMP",
      syscall |-> "OP_SYSCALL", syscall1 |-> "OP_SYSCALL1",
      syscall2 |-> "OP_SYSCALL2", syscall3 |-> "OP_SYSCALL3",
      syscall4 |-> "OP_SYSCALL4", syscall5 |-> "OP_SYSCALL5",
      syscall6 |-> "OP_SYSCALL6", rsyscall1 |-> "OP_RSYSCALL1",
      rsyscall2 |-> "OP_RSYSCALL2", rsyscall3 |-> "OP_RSYSCALL3",
      rsyscall4 |-> "OP_RSYSCALL4", rsyscall5 |-> "OP_RSYSCALL5",
      rsyscall6 |-> "OP_RSYSCALL6", drop |-> "OP_DROP", dup |-> "OP_DUP",
      dup2 |-> "OP_DUP2", swap |-> "OP_SWAP", swap2 |-> "OP_SWAP2",
      over |-> "OP_OVER", rot |-> "OP_ROT", rrot |-> "OP_RROT",
      exit |-> "OP_EXIT", if |-> "OP_IF", elif |-> "OP_ELIF",
      else |-> "OP_ELSE", while |-> "OP_WHILE", do |-> "OP_DO",
      macro |-> "MACRO", proc |-> "PROC", in |-> "IN", out |-> "OUT",
      memory |-> "MEMORY", include |-> "INCLUDE", end |-> "OP_END",
      let |-> "OP_LET", with |-> "OP_WITH", argc |-> "OP_ARGC",
      argv |-> "OP_ARGV", store |-> "OP_STORE", load |-> "OP_LOAD" ]

\* OPERANDS: spelling -> kind of the token built
OPERANDS ==
    ("+" :> "OP_PLUS") @@ ("-" :> "OP_MINUS") @@ ("*" :> "OP_MUL") @@
    ("/" :> "OP_DIV") @@ ("%" :> "OP_MOD") @@ ("/%" :> "OP_DIVMOD") @@
    ("++" :> "OP_INCREMENT") @@ ("--" :> "OP_DECREMENT") @@
    ("==" :> "OP_EQ") @@ ("!=" :> "OP_NE") @@ (">" :> "OP_GT") @@
    (">=" :> "OP_GE") @@ ("<" :> "OP_LT") @@ ("<=" :> "OP_LE") @@
    ("!" :> "OP_STORE") @@ ("!16" :> "OP_STORE16") @@
    ("!32" :> "OP_STORE32") @@ ("!64" :> "OP_STORE64") @@
    ("@" :> "OP_LOAD") @@ ("@16" :> "OP_LOAD16") @@
    ("@32" :> "OP_LOAD32") @@ ("@64" :> "OP_LOAD64") @@
    ("<<" :> "OP_BLSH") @@ (">>" :> "OP_BRSH") @@ ("&" :> "OP_BAND") @@
    ("|" :> "OP_BOR") @@ ("^" :> "OP_BXOR")

(***************************************************************************)
(* Objects.                                                                *)
(*   Token:     kind, value and position.  The value is a literal payload  *)
(*              (val: the spelling it was built from), a Type (ty), a      *)
(*              FlowInfo (index ref into flows), a Procedure (index ref    *)
(*              into procs) or None; vk says which.  info is the number    *)
(*              of the lexeme the token was built from, str its spelling,  *)
(*              parent the lexeme of the macro call it was copied for.     *)
(*   FlowInfo:  root, prev, next, end (token indexes, None when unset),    *)
(*              haselse, data (a list of token indexes; hasdata is false   *)
(*              while data is None).                                       *)
(*   Procedure: opener, closer, name, args and out (lists of <<token,      *)
(*              type>>), body (a list of token indexes).                   *)
(*   Symbol:    type and data (a list of tokens for a MACRO, one token     *)
(*              otherwise).                                                *)
(***************************************************************************)
Token(type, vk, val, ty, info, str) ==
    [type |-> type, vk |-> vk, val |-> val, ty |-> ty, ref |-> None,
     info |-> info, parent |-> None, str |-> str, position |-> None]

FlowInfo(root, prev) ==
    [root |-> root, prev |-> prev, next |-> None, end |-> None,
     haselse |-> FALSE, hasdata |-> FALSE, data |-> <<>>]

Procedure(opener, closer, name, args, out, body) ==
    [opener |-> opener, closer |-> closer, name |-> name, args |-> args,
     out |-> out, body |-> body]

Symbol(type, data) == [type |-> type, data |-> data]

\* an exception: its class, the lexeme number of the span it carries (None
\* for an exception that carries no span), a tag for its message and the
\* class of the exception chained to it, "" if none
Exc(kind, at, msg) == [kind |-> kind, at |-> at, msg |-> msg, cause |-> ""]

NoExc == Exc("", None, "")


(***************************************************************************)
(* The parser works on a Program p: a record of the Program's attributes   *)
(* (instructions, symbols, globals, let_depth, _in_preproc, _position),    *)
(* the object stores, the flow resolver's local `stack` of <<token,        *)
(* FlowInfo>> pairs, and the exception raised, if any.                     *)
(***************************************************************************)
Raise(p, kind, at, msg) == [p EXCEPT !.err = Exc(kind, at, msg)]

Raised(p) == p.err # NoExc

TypeOf(p, t) == p.heap[t].type
InfoOf(p, t) == p.heap[t].info
FlowOf(p, t) == p.flows[p.heap[t].ref]

\* token.value = FlowInfo(...)
NewFlow(p, t, f) ==
    [p EXCEPT !.flows = Append(@, f),
              !.heap[t].vk = "flow",
              !.heap[t].ref = Len(p.flows) + 1]

Push(p, t) == [p EXCEPT !.stack = Append(@, <<t, p.heap[t].ref>>)]

Pop(p) == [p EXCEPT !.stack = SubSeq(@, 1, Len(@) - 1)]

Top(p) == p.stack[Len(p.stack)][1]
TopFlow(p) == p.stack[Len(p.stack)][2]

\* self.instructions.pop(i) for i in reversed(range(a, b)), with _position
PopInstructions(p, a, b) ==
    IF PopRangeFails(p.ins, a, b)
    THEN Raise(p, "IndexError", None, "pop index out of range")
    ELSE [p EXCEPT !.ins = PopRange(@, a, b),
                   !.pos = IF a < b THEN @ - (b - a) ELSE @]

(***************************************************************************)
(* Program.parse_macro                                                     *)
(***************************************************************************)
\* a redefinition check that never finds the name
NameNeverTaken(p, name) == FALSE

\* the redefinition check of a definition's name
NameTaken(p, name) == name \in DOMAIN p.symbols

parse_macro(p, tokens) ==
    IF Len(tokens) < 2
    THEN Raise(p, "IndexError", None, "tokens[1]")
    ELSE IF TypeOf(p, tokens[2]) # "OP_WORD"
    THEN Raise(p, "InvalidSyntax", InfoOf(p, tokens[2]), "macro name must be a word")
    ELSE IF NameTaken(p, p.heap[tokens[2]].str)
    THEN Raise(p, "SymbolRedefined", InfoOf(p, tokens[2]), "Has already been defined")
    ELSE [p EXCEPT !.symbols = DictPut(@, p.heap[tokens[2]].str,
                                   Symbol("MACRO", SubSeq(tokens, 3, Len(tokens))))]

(***************************************************************************)
(* Program.parse_memory                                                    *)
(***************************************************************************)
parse_memory(p, tokens) ==
    IF Len(tokens) < 2
    THEN Raise(p, "IndexError", None, "tokens[1]")
    ELSE IF p.heap[tokens[1]].vk # "flow"
    THEN Raise(p, "AssertionError", None, "isinstance(tokens[0].value, FlowInfo)")
    ELSE IF TypeOf(p, tokens[2]) # "OP_WORD"
    THEN Raise(p, "InvalidSyntax", InfoOf(p, tokens[2]), "memory name must be a word")
    ELSE IF NameTaken(p, p.heap[tokens[2]].str)
    THEN Raise(p, "SymbolRedefined", InfoOf(p, tokens[2]), "Has already been defined")
    ELSE LET name == p.heap[tokens[2]].str
             sym  == Symbol("MEMORY", <<tokens[1]>>)
         IN [p EXCEPT !.flows[p.heap[tokens[1]].ref].data = Tail(tokens),
                      !.flows[p.heap[tokens[1]].ref].hasdata = TRUE,
                      !.symbols = DictPut(@, name, sym),
                      !.globals = DictPut(@, name, sym)]

(***************************************************************************)
(* procedureFactory                                                        *)
(***************************************************************************)
\* an argument loop that accepts any region
ArgsAccepted(p, token, args) == <<>>

\* the first failure of the loop over batched(args, 2): <<>> when there is
\* none, else <<token whose span is reported>>; `token` is the proc opener
RECURSIVE ArgsFailure(_, _, _)
ArgsFailure(p, token, args) ==
    IF args = <<>> THEN <<>>
    ELSE IF Len(args) = 1 THEN <<token>>
    ELSE IF TypeOf(p, args[1]) # "OP_WORD" THEN <<args[1]>>
    ELSE IF TypeOf(p, args[2]) # "CAST" THEN <<args[2]>>
    ELSE ArgsFailure(p, token, SubSeq(args, 3, Len(args)))

RECURSIVE ArgPairs(_, _)
ArgPairs(p, args) ==
    IF Len(args) < 2 THEN <<>>
    ELSE <<<<args[1], p.heap[args[2]].ty>>>> \o ArgPairs(p, SubSeq(args, 3, Len(args)))

RECURSIVE OutFailure(_, _)
OutFailure(p, out) ==
    IF out = <<>> THEN <<>>
    ELSE IF TypeOf(p, out[1]) # "CAST" THEN <<out[1]>>
    ELSE OutFailure(p, Tail(out))

OutPairs(p, out) == [i \in 1..Len(out) |-> <<out[i], p.heap[out[i]].ty>>]

\* root.value = procedureFactory(root, name, args, out, body)
procedureFactory(p, token, name, args, out, body) ==
    IF ArgsFailure(p, token, args) # <<>>
    THEN Raise(p, "InvalidSyntax", InfoOf(p, ArgsFailure(p, token, args)[1]),
               "Invalid procedure argument syntax")
    ELSE IF OutFailure(p, out) # <<>>
    THEN Raise(p, "InvalidSyntax", InfoOf(p, OutFailure(p, out)[1]),
               "Invalid procedure return syntax")
    ELSE [p EXCEPT !.procs = Append(@, Procedure(token, FlowOf(p, token).end,
                                        p.heap[name].val, ArgPairs(p, args),
                                        OutPairs(p, out), body)),
                   !.heap[token].vk = "proc",
                   !.heap[token].ref = Len(p.procs) + 1]

(***************************************************************************)
(* Program.parse_proc                                                      *)
(***************************************************************************)
\* CALL(e.info.string, info=e.info)
CALL(p, e) == Token("CALL", "lit", p.heap[e].str, <<>>, p.heap[e].info, p.heap[e].str)

\* the loop that rewrites root.value.body: recursive calls become CALL tokens
RECURSIVE RewriteBody(_, _, _, _)
RewriteBody(p, pr, name, i) ==
    IF i > Len(p.procs[pr].body) THEN p
    ELSE LET e == p.procs[pr].body[i] IN
         IF TypeOf(p, e) = "OP_WORD" /\ p.heap[e].val = name
         THEN RewriteBody([p EXCEPT !.heap = Append(@, CALL(p, e)),
                                    !.procs[pr].body[i] = Len(p.heap) + 1],
                          pr, name, i + 1)
         ELSE RewriteBody(p, pr, name, i + 1)

parse_proc(p, root, end) ==
    LET in_  == FlowOf(p, root).next
        out_ == FlowOf(p, in_).next
        e1   == p.heap[in_].position
        args == Slice(p.ins, p.heap[root].position + 1, e1)
        e2   == IF out_ # None THEN p.heap[out_].position ELSE e1
        out  == IF out_ # None THEN Slice(p.ins, e1 + 1, e2) ELSE <<>>
        s    == e2 + 1
        body == Slice(p.ins, s, p.heap[end].position)
    IN
    IF Len(args) < 1
    THEN Raise(p, "InvalidSyntax", InfoOf(p, root), "proc requires a name")
    ELSE IF TypeOf(p, args[1]) = "CALL"
    THEN Raise(p, "SymbolRedefined", InfoOf(p, args[1]), "Has already been defined")
    ELSE IF TypeOf(p, args[1]) # "OP_WORD"
    THEN Raise(p, "InvalidSyntax", InfoOf(p, args[1]), "proc name must be a word")
    ELSE IF NameTaken(p, p.heap[args[1]].str)
    THEN Raise(p, "SymbolRedefined", InfoOf(p, args[1]), "Has already been defined")
    ELSE
    LET name == p.heap[args[1]].str
        p1 == [p EXCEPT !.flows[p.heap[in_].ref].data = args,
                        !.flows[p.heap[in_].ref].hasdata = TRUE,
                        !.flows[p.heap[root].ref].data = body,
                        !.flows[p.heap[root].ref].hasdata = TRUE]
        p2 == procedureFactory(p1, root, args[1], Tail(args), out, body)
        p3 == PopInstructions(p2, p.heap[root].position + 1, s)
        p4 == [p3 EXCEPT !.symbols = DictPut(@, name, Symbol("PROC", <<root>>))]
    IN IF Raised(p2) THEN p2
       ELSE IF Raised(p3) THEN p3
       ELSE RewriteBody(p4, p4.heap[root].ref, name, 1)


(***************************************************************************)
(* Program.process_flow_control: what the coroutine does with one token.   *)
(***************************************************************************)
\* IF, WHILE: token.value = FlowInfo(token); stack.append(...)
Opener(p, t) == Push(NewFlow(p, t, FlowInfo(t, None)), t)

\* LET, WITH
LetOpener(p, t) == [Opener(p, t) EXCEPT !.let_depth = @ + 1]

\* a branch accepted after an ELSE as well
BranchTopsWithElse == {"OP_IF", "OP_ELIF", "OP_ELSE"}

\* the kinds of the stack entry an ELIF or an ELSE may follow
BranchTops == {"OP_IF", "OP_ELIF"}

\* ELIF, ELSE
Branch(p, t) ==
    IF p.stack = <<>>
    THEN Raise(p, "InvalidSyntax", InfoOf(p, t), "must be preceded by if or elif")
    ELSE LET top == Top(p)
             fl  == TopFlow(p)
             q   == Pop(p)
         IN IF TypeOf(p, top) \notin BranchTops
            THEN Raise(q, "InvalidSyntax", InfoOf(p, top), "must be preceded by if or elif")
            ELSE Push(NewFlow([q EXCEPT !.flows[fl].next = t], t,
                              FlowInfo(p.flows[fl].root, top)), t)

\* the flag of the ELSE alone, not carried to the members before it
SeesElseHere(p, node, haselse) == TypeOf(p, node) = "OP_ELSE"

\* haselse once the walk has met the ELSE
SeesElse(p, node, haselse) == haselse \/ TypeOf(p, node) = "OP_ELSE"

\* the loop over the chain at the END of an if or while block
RECURSIVE Chain(_, _, _, _)
Chain(p, node, haselse, end) ==
    IF node = None THEN p
    ELSE LET h == SeesElse(p, node, haselse)
             f == p.heap[node].ref
         IN Chain([p EXCEPT !.flows[f].haselse = h, !.flows[f].end = end],
                  p.flows[f].prev, h, end)

EndMacro(p, t, top, fl) ==
    LET q == parse_macro(p, Slice(p.ins, p.heap[p.flows[fl].root].position,
                                  p.heap[t].position))
        r == PopInstructions(q, p.heap[top].position, p.heap[t].position + 1)
    IN IF Raised(q) THEN q
       ELSE IF Raised(r) THEN r
       ELSE [r EXCEPT !.in_preproc = 0]

EndProc(p, t, top) ==
    LET root == FlowOf(p, top).root
        q == [p EXCEPT !.flows[p.heap[root].ref].end = t]
    IN IF FlowOf(p, root).next = None
       THEN Raise(q, "AssertionError", None, "assert flow.next")
       ELSE LET r == parse_proc(q, root, t)
            IN IF Raised(r) THEN r ELSE [r EXCEPT !.in_preproc = 0]

EndMemory(p, t, top, fl) ==
    LET q == parse_memory(p, Slice(p.ins, p.heap[p.flows[fl].root].position,
                                   p.heap[t].position))
        r == PopInstructions(q, p.heap[top].position, p.heap[t].position + 1)
    IN IF Raised(q) THEN q
       ELSE IF Raised(r) THEN r
       ELSE [r EXCEPT !.in_preproc = 0]

EndLet(p, t, top, fl) ==
    LET q == [p EXCEPT !.let_depth = @ - 1] IN
    IF p.in_preproc # 0 THEN q
    ELSE IF p.flows[fl].next = None
    THEN Raise(q, "AssertionError", None, "assert flow.next")
    ELSE LET words == Slice(p.ins, p.heap[p.flows[fl].root].position + 1,
                            p.heap[p.flows[fl].next].position)
             r == [q EXCEPT !.flows[p.heap[top].ref].data = words,
                            !.flows[p.heap[top].ref].hasdata = TRUE]
         IN PopInstructions(r, p.heap[top].position + 1,
                            p.heap[FlowOf(p, top).next].position)

End(p, t) ==
    IF p.stack = <<>>
    THEN Raise(p, "InvalidSyntax", InfoOf(p, t), "end token without block start")
    ELSE LET top == Top(p)
             fl  == TopFlow(p)
             q   == NewFlow(Pop(p), t, FlowInfo(p.flows[fl].root, top))
             k   == TypeOf(p, top)
         IN IF k = "MACRO" THEN EndMacro(q, t, top, fl)
            ELSE IF k \in {"PROC", "IN", "OUT"} THEN EndProc(q, t, top)
            ELSE IF k = "MEMORY" THEN EndMemory(q, t, top, fl)
            ELSE IF k \in {"OP_LET", "OP_WITH"} THEN EndLet(q, t, top, fl)
            ELSE Chain(q, t, FALSE, t)

Do(p, t) ==
    IF p.stack = <<>>
    THEN Raise(p, "InvalidSyntax", InfoOf(p, t), "do must be preceded by an opener")
    ELSE LET top == Top(p)
             fl  == TopFlow(p)
         IN IF TypeOf(p, top) \notin {"OP_IF", "OP_ELIF", "OP_WHILE", "OP_LET", "OP_WITH"}
            THEN Raise(Pop(p), "InvalidSyntax", InfoOf(p, t), "do must be preceded by an opener")
            ELSE [p EXCEPT !.heap[t].vk = "flow",
                           !.heap[t].ref = fl,
                           !.flows[fl].next =
                               IF TypeOf(p, top) \in {"OP_LET", "OP_WITH"} THEN t ELSE @]

\* whether a definition may open here
Nested(p) == p.in_preproc # 0

\* MACRO, PROC, MEMORY with no value yet
Definition(p, t, what) ==
    LET q == NewFlow(p, t, FlowInfo(t, None)) IN
    IF Nested(p)
    THEN Raise(q, "InvalidSyntax", InfoOf(p, t), what)
    ELSE Push([q EXCEPT !.in_preproc = 1], t)

\* IN (after PROC), OUT (after PROC or IN)
Section(p, t, after, msg) ==
    IF p.stack = <<>>
    THEN Raise(p, "InvalidSyntax", InfoOf(p, t), msg)
    ELSE LET top == Top(p)
             fl  == TopFlow(p)
             q   == Pop(p)
         IN IF TypeOf(p, top) \notin after
            THEN Raise(q, "InvalidSyntax", InfoOf(p, t), msg)
            ELSE Push(NewFlow([q EXCEPT !.in_preproc = 0, !.flows[fl].next = t],
                              t, FlowInfo(p.flows[fl].root, top)), t)

process_flow_control(p, t) ==
    LET k == TypeOf(p, t) IN
    CASE k = "OP_IF"    -> Opener(p, t)
      [] k = "OP_ELIF"  -> Branch(p, t)
      [] k = "OP_ELSE"  -> Branch(p, t)
      [] k = "OP_END"   -> End(p, t)
      [] k = "OP_WHILE" -> Opener(p, t)
      [] k = "OP_DO"    -> Do(p, t)
      [] k = "OP_LET"   -> LetOpener(p, t)
      [] k = "OP_WITH"  -> LetOpener(p, t)
      [] k = "MACRO"    -> Definition(p, t, "nested macro definition is not allowed")
      [] k = "IN"       -> Section(p, t, {"PROC"}, "in must be preceded by proc")
      [] k = "OUT"      -> Section(p, t, {"PROC", "IN"}, "out must be preceded by proc or in")
      [] k = "PROC"     -> IF p.heap[t].vk # "none" THEN p
                           ELSE Definition(p, t, "nested proc definition is not allowed")
      [] k = "MEMORY"   -> IF p.heap[t].vk # "none" THEN p
                           ELSE Definition(p, t, "nested memory definition is not allowed")
      [] OTHER          -> p

\* the end of the input: flow_control.send(None)
\* the outermost entry of the stack
UnclosedOutermost(p) == p.stack[1][1]

\* stack[-1][0]: the token of the innermost entry of the stack
Unclosed(p) == Top(p)

MissingEnd(p) ==
    IF p.stack # <<>>
    THEN Raise(p, "InvalidSyntax", InfoOf(p, Unclosed(p)), "is missing an end")
    ELSE p


(***************************************************************************)
(* Program.match_word, Program.match_token: the tokens one lexeme becomes. *)
(* The result is the program (its heap holds the tokens built) and the     *)
(* list of tokens.                                                         *)
(***************************************************************************)
Built(p, toks) == [p |-> p, toks |-> toks]

\* one new token
Build(p, tok) == Built([p EXCEPT !.heap = Append(@, tok)], <<Len(p.heap) + 1>>)

\* Token.copy(info): a copy of the token for the macro call at lexeme `info`
Copy(tok, info) == [tok EXCEPT !.parent = info]

\* [LABEL(name), *[i.copy(token) for i in body]]
Expansion(p, lex, info, body) ==
    LET label  == Token("OP_LABEL", "lit", lex.string, <<>>, info, lex.string)
        copies == [i \in 1..Len(body) |-> Copy(p.heap[body[i]], info)]
        n      == Len(p.heap)
    IN Built([p EXCEPT !.heap = (@ \o <<label>>) \o copies],
             [i \in 1..(Len(body) + 1) |-> n + i])

\* the token a word that names a MEMORY symbol becomes
MemoryWord(p, lex, info) == Built(p, p.symbols[lex.string].data)

match_word(p, lex, info) ==
    IF lex.string \in DOMAIN p.symbols
    THEN LET sym == p.symbols[lex.string] IN
         CASE sym.type = "MEMORY" -> MemoryWord(p, lex, info)
           [] sym.type = "PROC"   ->
                Build(p, Token("CALL", "lit", lex.string, <<>>, info, lex.string))
           [] sym.type = "MACRO"  -> Expansion(p, lex, info, sym.data)
    ELSE Build(p, Token("OP_WORD", "lit", lex.string, <<>>, info, lex.string))

\* the signals and exceptions match_token raises: "" when it returns
MatchRaises(lex) ==
    CASE lex.type = "OP" /\ lex.string = "//"                -> "Comment"
      [] lex.type = "OP" /\ lex.string \notin DOMAIN OPERANDS -> "UnknownToken"
      [] lex.type = "NEW_LINE"                                -> "EndLine"
      [] lex.type = "CAST" /\ StrToType(lex.string, lex.stars) = <<>>
                                                              -> "InvalidType"
      [] lex.type \notin {"NUMBER", "CHAR", "STRING", "WORD", "OP", "NEW_LINE", "CAST"}
                                                              -> "UnknownToken"
      [] OTHER                                                -> ""

match_token(p, lex, info) ==
    CASE lex.type = "NUMBER" ->
            Build(p, Token("OP_PUSH", "lit", lex.string, <<>>, info, lex.string))
      [] lex.type = "CHAR" ->
            Build(p, Token("OP_CHAR", "lit", lex.string, <<>>, info, lex.string))
      [] lex.type = "STRING" ->
            Build(p, Token("OP_STRING", "lit", lex.string, <<>>, info, lex.string))
      [] lex.type = "WORD" /\ lex.string \in DOMAIN KEYWORDS ->
            Build(p, Token(KEYWORDS[lex.string],
                           IF KEYWORDS[lex.string] = "OP_BOOL" THEN "lit" ELSE "none",
                           IF KEYWORDS[lex.string] = "OP_BOOL" THEN lex.string ELSE "",
                           <<>>, info, lex.string))
      [] lex.type = "OP" ->
            Build(p, Token(OPERANDS[lex.string], "none", "", <<>>, info, lex.string))
      [] lex.type = "WORD" /\ lex.string \notin DOMAIN KEYWORDS ->
            match_word(p, lex, info)
      [] lex.type = "CAST" ->
            Build(p, Token("CAST", "type", "", StrToType(lex.string, lex.stars),
                           info, lex.string))

(***************************************************************************)
(* Program.add, and the loop of build_tokens that adds the tokens built.   *)
(***************************************************************************)
add(p, t) ==
    [p EXCEPT !.ins = Append(@, t),
              !.heap[t].position = p.pos,
              !.pos = @ + 1]

RECURSIVE AddAll(_, _)
AddAll(p, toks) ==
    IF toks = <<>> THEN p ELSE AddAll(add(p, Head(toks)), Tail(toks))

\* build_tokens, for a lexeme that is not on a commented line and that
\* match_token returns tokens for
build_tokens(p, lex, info) ==
    LET b == match_token(p, lex, info)
        q == [b.p EXCEPT !.in_preproc = IF @ # 0 THEN @ + 1 ELSE @]
    IN Built(AddAll(q, b.toks), b.toks)

(***************************************************************************)
(* The files the include search finds, by path.  search_path opens the     *)
(* path in the first directory of self.includes that holds it.             *)
(***************************************************************************)
FileSystem ==
    ("lib.sl" :> <<W("macro"), W("inc"), O("++"), W("end")>>) @@
    ("one.sl" :> <<N("1")>>) @@
    ("self.sl" :> <<W("include"), S("self.sl"), N("1")>>)

\* search_path raises FileNotFoundError
NotFound(path) == path \notin DOMAIN FileSystem

(***************************************************************************)
(* Program.expand: what the coroutine does with one token, given the       *)
(* token it saw before.  ext is the path of the file the tokenizer is to   *)
(* be extended with, "" when the coroutine yields None.                    *)
(***************************************************************************)
Expanded(p, ext) == [p |-> p, ext |-> ext]

\* the FileError carrying the span of the token before the path
FileErrorAtInclude(prev, token) == prev

\* the token whose span the FileError of a missing file carries
FileErrorToken(prev, token) == token

expand(p, prev, token) ==
    IF prev # None /\ TypeOf(p, prev) = "INCLUDE"
    THEN IF TypeOf(p, token) = "OP_STRING"
         THEN LET q == [p EXCEPT !.ins = SubSeq(@, 1, Len(@) - 2),
                                 !.pos = @ - 2]
              IN IF NotFound(p.heap[token].val)
                 THEN Expanded(Raise(q, "FileError",
                                     InfoOf(p, FileErrorToken(prev, token)), "No file"), "")
                 ELSE Expanded(q, p.heap[token].val)
         ELSE Expanded(Raise(p, "InvalidSyntax", InfoOf(p, token),
                             "include requires a string"), "")
    ELSE Expanded(p, "")

\* parse_tokens' last loop: token.position = index, in list order
RECURSIVE Renumber(_, _, _)
Renumber(heap, ins, i) ==
    IF i > Len(ins) THEN heap
    ELSE Renumber([heap EXCEPT ![ins[i]].position = i - 1], ins, i + 1)


(***************************************************************************)
(* _TypeChecker.  A type checker c is the record of its attributes and the *)
(* exception raised, if any; a stack value is <<token, type>>.  p is the   *)
(* parsed Program the tokens belong to.                                    *)
(***************************************************************************)
TRaise(c, kind, at, msg, cause) ==
    [c EXCEPT !.err = [kind |-> kind, at |-> at, msg |-> msg, cause |-> cause]]

TPush(c, tok, type) == [c EXCEPT !.stack = Append(@, <<tok, type>>)]

TPop(c) == [c EXCEPT !.stack = SubSeq(@, 1, Len(@) - 1)]

TTop(c) == c.stack[Len(c.stack)]

\* check_length
check_length(p, c, n, token) ==
    IF Len(c.stack) < n
    THEN TRaise(c, "NotEnoughTokens", InfoOf(p, token), "Not enough arguments", "")
    ELSE c

\* type_check(expected, token): the value popped must be of the type
type_check(p, c, expected, token) ==
    LET a == TTop(c) IN
    IF TypeEq(expected, ANY) THEN TPop(c)
    ELSE IF ~TypeEq(a[2], expected)
    THEN TRaise(TPop(c), "Reporting", InfoOf(p, a[1]), "must be", "InvalidType")
    ELSE TPop(c)

RECURSIVE type_checks(_, _, _, _)
type_checks(p, c, args, token) ==
    IF args = <<>> \/ c.err # NoExc THEN c
    ELSE type_checks(p, type_check(p, c, Head(args), token), Tail(args), token)

\* check(args, token)
check(p, c, args, token) ==
    LET d == check_length(p, c, Len(args), token) IN
    IF d.err # NoExc THEN d ELSE type_checks(p, d, args, token)

\* the values check() pops, first popped first
Popped(c, n) == [i \in 1..n |-> c.stack[Len(c.stack) + 1 - i]]

\* check_same(length, token): the type popped first is in `same`
RECURSIVE same_loop(_, _, _, _, _)
same_loop(p, c, first, n, token) ==
    IF n = 0 THEN c
    ELSE LET b == TTop(c) IN
         IF ~TypeEq(b[2], first[2])
         THEN TRaise(TPop(c), "Reporting", InfoOf(p, b[1]), "must be equal to", "Reporting")
         ELSE same_loop(p, TPop(c), first, n - 1, token)

check_same(p, c, length, token) ==
    LET d == check_length(p, c, length, token) IN
    IF d.err # NoExc THEN d
    ELSE same_loop(p, TPop(d), TTop(d), length - 1, token)

\* check_comb(args, token): args is the list of cases.  The loop pops one
\* value per slot and keeps in `valid` the cases that match so far.
RECURSIVE comb_loop(_, _, _, _, _, _)
comb_loop(p, c, args, valid, index, token) ==
    IF index > Len(args[1]) THEN [c |-> c, valid |-> valid]
    ELSE LET st  == TTop(c)
             hit == \E i \in 1..Len(args) : valid[i] /\ TypeEq(args[i][index], st[2])
             new == [i \in 1..Len(args) |-> valid[i] /\ TypeEq(args[i][index], st[2])]
         IN IF ~hit
            THEN [c |-> TRaise(TPop(c), "InvalidType", InfoOf(p, st[1]),
                               "expected to be", "TypeCheckerException"),
                  valid |-> valid]
            ELSE comb_loop(p, TPop(c), args, new, index + 1, token)

\* the index (from 0) of the first case left valid
FirstValid(valid) == (CHOOSE i \in 1..Len(valid) :
                        valid[i] /\ \A j \in 1..(i - 1) : ~valid[j]) - 1

\* the result: the checker, the case and the types popped
check_comb(p, c, args, token) ==
    LET d == check_length(p, c, Len(args[1]), token) IN
    IF d.err # NoExc THEN [c |-> d, case |-> -1, stack_types |-> <<>>]
    ELSE LET r == comb_loop(p, d, args, [i \in 1..Len(args) |-> TRUE], 1, token)
         IN IF r.c.err # NoExc THEN [c |-> r.c, case |-> -1, stack_types |-> <<>>]
            ELSE [c |-> r.c, case |-> FirstValid(r.valid),
                  stack_types |-> [i \in 1..Len(args[1]) |-> Popped(d, Len(args[1]))[i][2]]]

\* cmp_stack(stack, prev, block): the exception it raises, NoExc if none
RECURSIVE FirstChanged(_, _, _)
FirstChanged(stk, prv, i) ==
    IF i > Len(prv) THEN 0
    ELSE IF ~TypeEq(prv[i][2], stk[i][2]) THEN i
    ELSE FirstChanged(stk, prv, i + 1)

cmp_stack(p, stk, prv, block) ==
    IF Len(stk) > Len(prv)
    THEN [kind |-> "AddedToken", at |-> InfoOf(p, stk[Len(stk)][1]),
          msg |-> "was added", cause |-> block]
    ELSE IF Len(stk) < Len(prv)
    THEN [kind |-> "MissingToken", at |-> InfoOf(p, prv[Len(prv)][1]),
          msg |-> "is missing", cause |-> block]
    ELSE IF FirstChanged(stk, prv, 1) # 0
    THEN [kind |-> "Reporting", at |-> InfoOf(p, stk[FirstChanged(stk, prv, 1)][1]),
          msg |-> "got changed by", cause |-> "Reporting"]
    ELSE NoExc

\* the bottom value of the stack instead of the top one
LeftoverBottom(stk) == stk[1]

\* the terminal check: the end of the program with values left on the stack
\* raises StackNotEmpty at the value popped
Leftover(stk) == stk[Len(stk)]

StackNotEmpty(p, c) ==
    IF Len(c.stack) >= 1
    THEN TRaise(TPop(c), "StackNotEmpty", InfoOf(p, Leftover(c.stack)[1]),
                "unhandled data on stack", "")
    ELSE c

(***************************************************************************)
(* _TypeChecker.run: what the coroutine does with one token.               *)
(***************************************************************************)
Ok(c) == c.err = NoExc

\* check(args), then push the types
CheckPush(p, c, args, token, pushes) ==
    LET d == check(p, c, args, token) IN
    IF ~Ok(d) THEN d
    ELSE [d EXCEPT !.stack = @ \o [i \in 1..Len(pushes) |-> <<token, pushes[i]>>]]

\* check_same(2), then push BOOL
Compare(p, c, token) ==
    LET d == check_same(p, c, 2, token) IN
    IF ~Ok(d) THEN d ELSE TPush(d, token, BOOL)

\* an intrinsic that needs n values: they are popped and `values` are
\* appended
Intrinsic(p, c, n, token, values) ==
    LET d == check_length(p, c, n, token) IN
    IF ~Ok(d) THEN d
    ELSE [d EXCEPT !.stack = SubSeq(@, 1, Len(@) - n) \o values]

\* an overloaded operator: r is what check_comb returned, `type` the type
\* pushed for its case
Overloaded(r, token, type) ==
    IF ~Ok(r.c) THEN r.c
    ELSE [TPush(r.c, token, type) EXCEPT !.last_case = r.case]

PlusCases  == << <<INT, INT>>, <<INT, PtrTo(ANY)>>, <<PtrTo(ANY), INT>>, <<CHAR, CHAR>> >>
MinusCases == << <<INT, INT>>, <<INT, PtrTo(ANY)>>, <<PtrTo(ANY), PtrTo(ANY)>>, <<CHAR, CHAR>> >>
UnaryCases == << <<INT>>, <<PtrTo(ANY)>>, <<CHAR>> >>
BitCases   == << <<INT, INT>>, <<CHAR, CHAR>>, <<BOOL, BOOL>> >>

\* a sum typed INT whatever the case
PlusResultInt(case, st) == INT

PlusResult(case, st) ==
    CASE case = 0 -> INT [] case = 1 -> st[2] [] case = 2 -> st[1] [] case = 3 -> CHAR

MinusResult(case, st) ==
    CASE case = 0 -> INT [] case = 1 -> PtrTo(ANY) [] case = 2 -> INT [] case = 3 -> CHAR

UnaryResult(case, st) ==
    CASE case = 0 -> INT [] case = 1 -> PtrTo(ANY) [] case = 2 -> CHAR

BitResult(case, st) ==
    CASE case = 0 -> INT [] case = 1 -> BOOL [] case = 2 -> CHAR

Anys(n) == [i \in 1..n |-> ANY]

\* the number of arguments of SYSCALLn / RSYSCALLn
SyscallArgs(k) ==
    CASE k \in {"OP_SYSCALL1", "OP_RSYSCALL1"} -> 1
      [] k \in {"OP_SYSCALL2", "OP_RSYSCALL2"} -> 2
      [] k \in {"OP_SYSCALL3", "OP_RSYSCALL3"} -> 3
      [] k \in {"OP_SYSCALL4", "OP_RSYSCALL4"} -> 4
      [] k \in {"OP_SYSCALL5", "OP_RSYSCALL5"} -> 5
      [] k \in {"OP_SYSCALL6", "OP_RSYSCALL6"} -> 6

\* an IF that consumes the value on top of the stack before the snapshots
TIfPops(c) ==
    [c EXCEPT !.stack = SubSeq(@, 1, Len(@) - 1),
              !.block_stack = Append(@, SubSeq(c.stack, 1, Len(c.stack) - 1)),
              !.block_origin_stack = Append(@, SubSeq(c.stack, 1, Len(c.stack) - 1)),
              !.last_case = -1]

\* IF, WHILE: the snapshots
TIf(c) ==
    [c EXCEPT !.block_stack = Append(@, c.stack),
              !.block_origin_stack = Append(@, c.stack),
              !.last_case = -1]

Last(seq) == seq[Len(seq)]
Front(seq) == SubSeq(seq, 1, Len(seq) - 1)

\* a branch that keeps the stack of the branch before it
TBranchKeepsStack(p, c, token, compare, block) ==
    IF c.block_stack = <<>>
    THEN TRaise(c, "IndexError", None, "pop from empty list", "")
    ELSE LET prv == Last(c.block_stack)
             e   == IF compare THEN cmp_stack(p, c.stack, prv, block) ELSE NoExc
         IN IF e # NoExc THEN [c EXCEPT !.err = e, !.block_stack = Front(@)]
            ELSE [c EXCEPT !.block_stack = Append(Front(@), c.stack),
                           !.last_case = -1]

\* ELIF and ELSE: the comparison with the snapshot of the branch before,
\* then the stack is the origin snapshot again
TBranch(p, c, token, compare, block) ==
    IF c.block_stack = <<>>
    THEN TRaise(c, "IndexError", None, "pop from empty list", "")
    ELSE LET prv == Last(c.block_stack)
             e   == IF compare THEN cmp_stack(p, c.stack, prv, block) ELSE NoExc
         IN IF e # NoExc THEN [c EXCEPT !.err = e, !.block_stack = Front(@)]
            ELSE IF c.block_origin_stack = <<>>
            THEN TRaise(c, "IndexError", None, "list index out of range", "")
            ELSE [c EXCEPT !.block_stack = Append(Front(@), c.stack),
                           !.stack = Last(c.block_origin_stack),
                           !.last_case = -1]

TElif(p, c, token) ==
    LET fl == FlowOf(p, token)
        pk == TypeOf(p, fl.prev)
    IN IF pk = "OP_IF" /\ ~fl.haselse
       THEN TBranch(p, c, token, TRUE, "IfException")
       ELSE IF pk = "OP_ELIF"
       THEN TBranch(p, c, token, TRUE, "ElifException")
       ELSE TBranch(p, c, token, FALSE, "")

TElse(p, c, token) ==
    TBranch(p, c, token, TypeOf(p, FlowOf(p, token).prev) = "OP_ELIF", "ElseException")

\* DO
TDo(p, c, token) ==
    LET root == FlowOf(p, token).root IN
    IF TypeOf(p, root) \in {"OP_WITH", "OP_LET"} THEN c
    ELSE LET d == check(p, c, <<BOOL>>, token) IN
         IF ~Ok(d) THEN d
         ELSE IF TypeOf(p, root) = "OP_WHILE" /\ Len(Last(d.block_stack)) # Len(d.stack)
         THEN IF d.stack = <<>>
              THEN TRaise(d, "IndexError", None, "list index out of range", "")
              ELSE TRaise(d, "WhileException", InfoOf(p, TTop(d)[1]), "Overflow error", "")
         ELSE [d EXCEPT !.last_case = -1]

\* the stack a proc's END leaves
AfterProc(prv, origin) == prv

\* END of a proc: the body's stack against the out types
TEndProc(p, c, token, prv, origin) ==
    LET procedure == p.procs[p.heap[FlowOf(p, token).root].ref]
        d == check(p, c, [i \in 1..Len(procedure.out) |-> procedure.out[i][2]], token)
    IN IF ~Ok(d) THEN d
       ELSE IF d.stack # <<>>
       THEN TRaise(TPop(d), "ProcedureError", InfoOf(p, TTop(d)[1]),
                   "unhandled data on stack inside procedure", "Reporting")
       ELSE [d EXCEPT !.stack = AfterProc(prv, origin)]

\* END
TEnd(p, c, token) ==
    LET rk == TypeOf(p, FlowOf(p, token).root)
        c0 == [c EXCEPT !.last_case = -1]
    IN IF rk \in {"OP_WITH", "OP_LET"}
       THEN IF c.locals = <<>>
            THEN TRaise(c0, "IndexError", None, "pop from empty list", "")
            ELSE [c0 EXCEPT !.locals = Front(@)]
       ELSE IF c.block_stack = <<>> \/ c.block_origin_stack = <<>>
       THEN TRaise(c0, "IndexError", None, "pop from empty list", "")
       ELSE LET prv    == Last(c.block_stack)
                origin == Last(c.block_origin_stack)
                c1     == [c0 EXCEPT !.block_stack = Front(@),
                                     !.block_origin_stack = Front(@)]
            IN CASE rk = "PROC" -> TEndProc(p, c1, token, prv, origin)
                 [] rk = "OP_WHILE" ->
                      LET e == cmp_stack(p, c1.stack, prv, "WhileException") IN
                      IF e # NoExc THEN [c1 EXCEPT !.err = e]
                      ELSE [c1 EXCEPT !.stack = prv]
                 [] rk = "OP_IF" ->
                      LET e == cmp_stack(p, c1.stack, prv, "IfException") IN
                      IF e # NoExc THEN [c1 EXCEPT !.err = e] ELSE c1
                 [] rk = "OP_END" -> c1
                 [] OTHER -> TRaise(c1, "RuntimeError", InfoOf(p, token), "NotImplemented", "")

\* the dict a list of <<key, value>> builds, later keys winning
RECURSIVE DictOf(_)
DictOf(pairs) ==
    IF pairs = <<>> THEN EmptyDict
    ELSE DictPut(DictOf(Front(pairs)), Last(pairs)[1], Last(pairs)[2])

\* LET
TLet(p, c, token) ==
    LET fl == FlowOf(p, token) IN
    IF ~fl.hasdata THEN TRaise(c, "TypeError", None, "len(None)", "")
    ELSE LET d == check(p, c, [i \in 1..Len(fl.data) |-> INT], token) IN
         IF ~Ok(d) THEN d
         ELSE [d EXCEPT !.locals = Append(@,
                 DictOf([i \in 1..Len(fl.data) |->
                            <<p.heap[fl.data[i]].val, <<fl.data[i], PtrTo(ANY)>> >>]))]

\* WITH
TWith(p, c, token) ==
    LET fl == FlowOf(p, token) IN
    IF ~fl.hasdata THEN TRaise(c, "TypeError", None, "len(None)", "")
    ELSE LET n == Len(fl.data)
             d == check_length(p, c, n, token)
         IN IF ~Ok(d) THEN d
            ELSE [d EXCEPT !.stack = SubSeq(@, 1, Len(@) - n),
                           !.locals = Append(@,
                              DictOf([i \in 1..n |->
                                        <<p.heap[fl.data[i]].val, Popped(d, n)[i]>>]))]

\* LOAD, LOAD16, LOAD32, LOAD64
TLoad(p, c, token) ==
    LET d == check(p, c, <<PtrTo(ANY)>>, token)
        t == TTop(c)[2]
    IN IF ~Ok(d) THEN d
       ELSE IF derefRaises(t) THEN TRaise(d, "ValueError", None, "Can't be deref'ed", "")
       ELSE TPush(d, token, derefType(t))

\* the innermost scope that binds key: 0 if none
RECURSIVE Scope(_, _, _)
Scope(locals, key, i) ==
    IF i = 0 THEN 0
    ELSE IF key \in DOMAIN locals[i] THEN i
    ELSE Scope(locals, key, i - 1)

\* a call: check the argument types, push the out values
TCall(p, c, name, token) ==
    IF name \notin DOMAIN c.procedures
    THEN TRaise(c, "KeyError", None, "procedures", "")
    ELSE LET pr == p.procs[c.procedures[name]]
             d  == check(p, c, [i \in 1..Len(pr.args) |-> pr.args[i][2]], token)
         IN IF ~Ok(d) THEN d ELSE [d EXCEPT !.stack = @ \o pr.out]

\* WORD
TWord(p, c, token) ==
    LET key == p.heap[token].val
        i   == Scope(c.locals, key, Len(c.locals))
    IN IF i # 0 THEN [c EXCEPT !.stack = Append(@, c.locals[i][key])]
       ELSE IF key \in DOMAIN c.procedures THEN TCall(p, c, key, token)
       ELSE TRaise(c, "UnknownToken", InfoOf(p, token), "Unknown word", "")

\* CAST
TCast(p, c, token) ==
    IF c.stack = <<>> THEN TRaise(c, "IndexError", None, "pop from empty list", "")
    ELSE [c EXCEPT !.stack[Len(c.stack)] = <<@[1], p.heap[token].ty>>]

\* PROC
TProc(p, c, token) ==
    LET pr == p.procs[p.heap[token].ref] IN
    [c EXCEPT !.procedures = DictPut(@, pr.name, p.heap[token].ref),
              !.block_origin_stack = Append(@, c.stack),
              !.block_stack = Append(@, <<>>),
              !.stack = <<>>,
              !.locals = Append(@, DictOf([i \in 1..Len(pr.args) |->
                            <<p.heap[pr.args[i][1]].val, pr.args[i]>>])),
              !.last_case = -1]

run(p, c0, token) ==
    LET k == TypeOf(p, token)
        c == [c0 EXCEPT !.last_case = -1]
        \* the values of the stack from the top: v[1] is popped first
        v == [i \in 1..Len(c.stack) |-> c.stack[Len(c.stack) + 1 - i]]
    IN
    CASE k = "OP_LABEL"  -> c
      [] k \in {"OP_ELIF", "OP_ELSE", "OP_DO", "OP_END", "OP_LET", "OP_WITH"}
         /\ p.heap[token].vk # "flow" ->
            TRaise(c, "AttributeError", None, "value", "")
      [] k = "PROC" /\ p.heap[token].vk # "proc" ->
            TRaise(c, "AttributeError", None, "value", "")
      [] k = "OP_PUSH"   -> TPush(c, token, INT)
      [] k = "OP_BOOL"   -> TPush(c, token, BOOL)
      [] k = "OP_CHAR"   -> TPush(c, token, CHAR)
      [] k = "OP_STRING" -> TPush(TPush(c, token, INT), token, PtrTo(CHAR))
      [] k = "OP_DROP"   -> check(p, c, <<ANY>>, token)
      [] k = "OP_DUP"    ->
            Intrinsic(p, c, 1, token, <<v[1], <<token, v[1][2]>> >>)
      [] k = "OP_DUP2"   ->
            Intrinsic(p, c, 2, token,
                      <<v[2], v[1], <<token, v[2][2]>>, <<token, v[1][2]>> >>)
      [] k = "OP_SWAP"   -> Intrinsic(p, c, 2, token, <<v[1], v[2]>>)
      [] k = "OP_OVER"   -> Intrinsic(p, c, 2, token, <<v[2], v[1], v[2]>>)
      [] k = "OP_ROT"    -> Intrinsic(p, c, 3, token, <<v[2], v[1], v[3]>>)
      [] k = "OP_RROT"   -> Intrinsic(p, c, 3, token, <<v[1], v[3], v[2]>>)
      [] k = "OP_PLUS"   -> LET r == check_comb(p, c, PlusCases, token) IN
            Overloaded(r, token, PlusResult(r.case, r.stack_types))
      [] k = "OP_MINUS"  -> LET r == check_comb(p, c, MinusCases, token) IN
            Overloaded(r, token, MinusResult(r.case, r.stack_types))
      [] k \in {"OP_MUL", "OP_DIV", "OP_MOD", "OP_BLSH", "OP_BRSH"} ->
            CheckPush(p, c, <<INT, INT>>, token, <<INT>>)
      [] k = "OP_DIVMOD" -> CheckPush(p, c, <<INT, INT>>, token, <<INT, INT>>)
      [] k \in {"OP_INCREMENT", "OP_DECREMENT"} ->
            LET r == check_comb(p, c, UnaryCases, token) IN
            Overloaded(r, token, UnaryResult(r.case, r.stack_types))
      [] k \in {"OP_BAND", "OP_BOR", "OP_BXOR"} ->
            LET r == check_comb(p, c, BitCases, token) IN
            Overloaded(r, token, BitResult(r.case, r.stack_types))
      [] k \in {"OP_EQ", "OP_NE", "OP_GT", "OP_GE", "OP_LT", "OP_LE"} ->
            Compare(p, c, token)
      [] k \in {"OP_DUMP", "OP_UDUMP", "OP_CDUMP"} -> check(p, c, <<ANY>>, token)
      [] k = "OP_HEXDUMP" -> check(p, c, <<INT>>, token)
      [] k = "OP_SYSCALL" -> CheckPush(p, c, <<INT>>, token, <<INT>>)
      [] k \in {"OP_RSYSCALL1", "OP_RSYSCALL2", "OP_RSYSCALL3", "OP_RSYSCALL4",
                "OP_RSYSCALL5", "OP_RSYSCALL6"} ->
            CheckPush(p, c, Anys(SyscallArgs(k)) \o <<INT>>, token, <<INT>>)
      [] k \in {"OP_SYSCALL1", "OP_SYSCALL2", "OP_SYSCALL3", "OP_SYSCALL4",
                "OP_SYSCALL5", "OP_SYSCALL6"} ->
            CheckPush(p, c, <<INT>> \o Anys(SyscallArgs(k)), token, <<INT>>)
      [] k = "OP_EXIT"   -> check(p, c, <<INT>>, token)
      [] k = "OP_IF"     -> TIf(c)
      [] k = "OP_ELIF"   -> TElif(p, c, token)
      [] k = "OP_ELSE"   -> TElse(p, c, token)
      [] k = "OP_WHILE"  -> TIf(c)
      [] k = "OP_DO"     -> TDo(p, c, token)
      [] k = "OP_END"    -> TEnd(p, c, token)
      [] k = "OP_LET"    -> TLet(p, c, token)
      [] k = "OP_WITH"   -> TWith(p, c, token)
      [] k = "OP_ARGC"   -> TPush(c, token, INT)
      [] k = "OP_ARGV"   -> TPush(c, token, PtrTo(ANY))
      [] k = "OP_STORE"  -> check(p, c, <<PtrTo(ANY), CHAR>>, token)
      [] k \in {"OP_STORE16", "OP_STORE32", "OP_STORE64"} ->
            check(p, c, <<PtrTo(ANY), INT>>, token)
      [] k \in {"OP_LOAD", "OP_LOAD16", "OP_LOAD32", "OP_LOAD64"} -> TLoad(p, c, token)
      [] k = "OP_WORD"   -> TWord(p, c, token)
      [] k = "CAST"      -> TCast(p, c, token)
      [] k = "OP_PUSHMEMORY" -> TPush(c, token, PtrTo(ANY))
      [] k = "PROC"      -> TProc(p, c, token)
      [] k = "CALL"      -> TCall(p, c, p.heap[token].val, token)
      [] OTHER           -> TRaise(c, "RuntimeError", InfoOf(p, token), "NotImplemented", "")

(***************************************************************************)
(* The source programs.  A program is a prefix, a fixed list of lexemes,   *)
(* followed by at most MaxFree lexemes drawn freely from an alphabet.      *)
(***************************************************************************)
Programs ==
    [ \* block structure
      blocks |->
        [prefix |-> <<>>,
         alphabet |-> {W("if"), W("elif"), W("else"), W("while"), W("do"), W("end")}],
      \* memory definitions and references
      memory |->
        [prefix |-> <<W("memory"), W("m"), N("8"), W("end")>>,
         alphabet |-> {W("m"), W("memory"), W("end"), N("1"), W("let"), W("do")}],
      \* let and with blocks
      binders |->
        [prefix |-> <<>>,
         alphabet |-> {W("let"), W("with"), W("a"), W("do"), W("end"), N("1")}],
      \* definitions
      defs |->
        [prefix |-> <<W("proc"), W("f"), W("in")>>,
         alphabet |-> {W("macro"), W("proc"), W("memory"), W("f"), W("g"),
                       W("in"), W("out"), W("end")}],
      \* a definition inside a definition
      nested |->
        [prefix |-> <<W("proc"), W("f"), W("in"), W("macro")>>,
         alphabet |-> {W("f"), W("g"), W("end"), N("1")}],
      \* includes
      includes |->
        [prefix |-> <<>>,
         alphabet |-> {W("include"), S("lib.sl"), S("one.sl"), S("nonexistent.sl"),
                       W("inc"), N("1")}],
      \* stack effects
      effects |->
        [prefix |-> <<>>,
         alphabet |-> {N("1"), W("true"), Q("c"), S("s"), O("+"), O(">"), O("&"),
                       W("swap"), W("drop"), W("dump"), O("@"), C("int", 1)}],
      \* line comments
      comments |->
        [prefix |-> <<>>,
         alphabet |-> {O("//"), NL, N("1"), W("dump"), O("?")}],
      \* a let block and a with block over one value
      letblock |->
        [prefix |-> <<N("8"), W("let"), W("a"), W("do")>>,
         alphabet |-> {W("a"), O("@"), W("drop"), W("end")}],
      withblock |->
        [prefix |-> <<N("8"), W("with"), W("a"), W("do")>>,
         alphabet |-> {W("a"), O("+"), W("drop"), W("end")}],
      \* 1 2 +
      sum |->
        [prefix |-> <<N("1"), N("2"), O("+")>>, alphabet |-> {}],
      \* 35 35 + 1 - dump 0 exit
      arith |->
        [prefix |-> <<N("35"), N("35"), O("+"), N("1"), O("-"), W("dump"),
                      N("0"), W("exit")>>,
         alphabet |-> {}],
      \* 1 2 > if 10 dump else 20 dump end 0 exit
      ifelse |->
        [prefix |-> <<N("1"), N("2"), O(">"), W("if"), N("10"), W("dump"),
                      W("else"), N("20"), W("dump"), W("end"), N("0"), W("exit")>>,
         alphabet |-> {}],
      \* if 1 2 > do 10 dump else 20 dump end 0 exit
      ifdoelse |->
        [prefix |-> <<W("if"), N("1"), N("2"), O(">"), W("do"), N("10"), W("dump"),
                      W("else"), N("20"), W("dump"), W("end"), N("0"), W("exit")>>,
         alphabet |-> {}],
      \* proc square int in int out dup * end 5 square dump 0 exit, with
      \* `int` lexed as a CAST
      square |->
        [prefix |-> <<W("proc"), W("square"), C("int", 0), W("in"), C("int", 0),
                      W("out"), W("dup"), O("*"), W("end"), N("5"), W("square"),
                      W("dump"), N("0"), W("exit")>>,
         alphabet |-> {}],
      \* the same, with `int` lexed as a WORD
      squareword |->
        [prefix |-> <<W("proc"), W("square"), W("int"), W("in"), W("int"),
                      W("out"), W("dup"), O("*"), W("end"), N("5"), W("square"),
                      W("dump"), N("0"), W("exit")>>,
         alphabet |-> {}],
      \* proc square n int in int out n n * end 5 square dump 0 exit
      squarearg |->
        [prefix |-> <<W("proc"), W("square"), W("n"), C("int", 0), W("in"),
                      C("int", 0), W("out"), W("n"), W("n"), O("*"), W("end"),
                      N("5"), W("square"), W("dump"), N("0"), W("exit")>>,
         alphabet |-> {}],
      \* include "nonexistent.sl" 0 exit
      missing |->
        [prefix |-> <<W("include"), S("nonexistent.sl"), N("0"), W("exit")>>,
         alphabet |-> {}],
      \* sums and differences
      plusminus |->
        [prefix |-> <<>>,
         alphabet |-> {N("1"), Q("c"), S("s"), W("true"), W("argv"),
                       O("+"), O("-")}],
      \* 1 any: a value cast to ANY, then overloaded operators
      wildcard |->
        [prefix |-> <<N("1"), C("any", 0)>>,
         alphabet |-> {N("1"), O("+"), O("-"), O("++"), O("--"), O("&")}],
      \* a comment on line 1, then on line 2 include "one.sl"
      commented |->
        [prefix |-> <<O("//"), W("dump"), NL, W("include"), S("one.sl")>>,
         alphabet |-> {}],
      \* if do elif do elif else end
      chain |->
        [prefix |-> <<W("if"), W("do"), W("elif"), W("do"), W("elif"),
                      W("else"), W("end")>>,
         alphabet |-> {}],
      \* if true do 1 elif true do 2 elif true do 3 else 4 end drop
      branches |->
        [prefix |-> <<W("if"), W("true"), W("do"), N("1"),
                      W("elif"), W("true"), W("do"), N("2"),
                      W("elif"), W("true"), W("do"), N("3"),
                      W("else"), N("4"), W("end"), W("drop")>>,
         alphabet |-> {}],
      \* if true do 1 elif true do end
      elifadded |->
        [prefix |-> <<W("if"), W("true"), W("do"), N("1"),
                      W("elif"), W("true"), W("do"), W("end")>>,
         alphabet |-> {}],
      \* 1 if true do drop elif true do end
      elifmissing |->
        [prefix |-> <<N("1"), W("if"), W("true"), W("do"), W("drop"),
                      W("elif"), W("true"), W("do"), W("end")>>,
         alphabet |-> {}],
      \* 1 if true do drop true elif true do end
      elifchanged |->
        [prefix |-> <<N("1"), W("if"), W("true"), W("do"), W("drop"), W("true"),
                      W("elif"), W("true"), W("do"), W("end")>>,
         alphabet |-> {}],
      \* 1 while drop 'c' true do drop 1 end drop
      whiletypes |->
        [prefix |-> <<N("1"), W("while"), W("drop"), Q("c"), W("true"), W("do"),
                      W("drop"), N("1"), W("end"), W("drop")>>,
         alphabet |-> {}],
      \* 1 while drop true do 1 end drop
      whileshort |->
        [prefix |-> <<N("1"), W("while"), W("drop"), W("true"), W("do"),
                      N("1"), W("end"), W("drop")>>,
         alphabet |-> {}],
      \* proc f in int out end
      procfew |->
        [prefix |-> <<W("proc"), W("f"), W("in"), C("int", 0), W("out"),
                      W("end")>>,
         alphabet |-> {}],
      \* proc f in int out true end
      proctype |->
        [prefix |-> <<W("proc"), W("f"), W("in"), C("int", 0), W("out"),
                      W("true"), W("end")>>,
         alphabet |-> {}],
      \* proc f in int out 1 2 end
      procmore |->
        [prefix |-> <<W("proc"), W("f"), W("in"), C("int", 0), W("out"),
                      N("1"), N("2"), W("end")>>,
         alphabet |-> {}],
      \* proc f in 1 f end
      recursive |->
        [prefix |-> <<W("proc"), W("f"), W("in"), N("1"), W("f"), W("end")>>,
         alphabet |-> {}],
      \* "s" ++ drop drop
      ptrincrement |->
        [prefix |-> <<S("s"), O("++"), W("drop"), W("drop")>>,
         alphabet |-> {}],
      \* true --
      boolincrement |->
        [prefix |-> <<W("true"), O("--")>>, alphabet |-> {}],
      \* int
      castempty |->
        [prefix |-> <<C("int", 0)>>, alphabet |-> {}],
      \* macro m let a do end let b do end end m
      twolets |->
        [prefix |-> <<W("macro"), W("m"), W("let"), W("a"), W("do"), W("end"),
                      W("let"), W("b"), W("do"), W("end"), W("end"), W("m")>>,
         alphabet |-> {}],
      \* macro m with a do a end end m
      onewith |->
        [prefix |-> <<W("macro"), W("m"), W("with"), W("a"), W("do"), W("a"),
                      W("end"), W("end"), W("m")>>,
         alphabet |-> {}],
      \* 1 'c' true 2 swap2
      swappairs |->
        [prefix |-> <<N("1"), Q("c"), W("true"), N("2"), W("swap2")>>,
         alphabet |-> {}],
      \* 1 proc f in end drop
      procafter |->
        [prefix |-> <<N("1"), W("proc"), W("f"), W("in"), W("end"), W("drop")>>,
         alphabet |-> {}],
      \* proc f in int bool out true 1 end f
      twoouts |->
        [prefix |-> <<W("proc"), W("f"), W("in"), C("int", 0), C("bool", 0),
                      W("out"), W("true"), N("1"), W("end"), W("f")>>,
         alphabet |-> {}],
      \* 1 if true do any elif true do drop true end drop
      anybranch |->
        [prefix |-> <<N("1"), W("if"), W("true"), W("do"), C("any", 0),
                      W("elif"), W("true"), W("do"), W("drop"), W("true"),
                      W("end"), W("drop")>>,
         alphabet |-> {}],
      \* proc f a int in end a
      argscope |->
        [prefix |-> <<W("proc"), W("f"), W("a"), C("int", 0), W("in"),
                      W("end"), W("a")>>,
         alphabet |-> {}],
      \* definitions that lack a part
      malformed |->
        [prefix |-> <<>>,
         alphabet |-> {W("macro"), W("memory"), W("proc"), W("in"), W("end")}],
      \* memory m 8 end m: a memory and a reference to it
      memref |->
        [prefix |-> <<W("memory"), W("m"), N("8"), W("end"), W("m")>>,
         alphabet |-> {}],
      \* include "self.sl", a file that includes itself
      selfinclude |->
        [prefix |-> <<W("include"), S("self.sl")>>,
         alphabet |-> {}]
    ]


(***************************************************************************)
(* State.                                                                  *)
(***************************************************************************)
VARIABLES
    pc,                 \* where the driver is: "lex", "send", "parsed", ...
    err,                \* the exception that ended the run, NoExc if none
    \* the tokenizer
    program,            \* which of Programs is being read
    sources,            \* the stack of token sources, innermost first
    free,               \* free lexemes left
    nlex,               \* lexemes delivered so far
    \* the Program
    heap, flows, procs,
    instructions, symbols, globals, let_depth, in_preproc, position,
    \* the locals of the coroutines
    comment,            \* build_tokens: the commented line, -1 if none
    tokens,             \* parse_tokens: tokens built, not yet sent on
    prev,               \* expand: the token seen before
    stack,              \* process_flow_control: open blocks
    \* the type checker
    tc,                 \* the _TypeChecker
    pointer,            \* index of the next instruction handed over
    \* the resolved program kept for comparison by a second flow pass
    resolved,
    \* Program.run
    engine,             \* the engine, with what it was asked so far
    returned            \* the value run returned, -1 while it has not

lexvars  == <<program, sources, free, nlex>>
progvars == <<heap, flows, procs, instructions, symbols, globals, let_depth,
              in_preproc, position, stack>>
covars   == <<comment, tokens, prev>>
tcvars   == <<tc, pointer, resolved>>
runvars  == <<engine, returned>>
vars     == <<pc, err, lexvars, progvars, covars, tcvars, runvars>>

\* the Program as the record the operators above work on
Prog ==
    [heap |-> heap, flows |-> flows, procs |-> procs, ins |-> instructions,
     symbols |-> symbols, globals |-> globals, let_depth |-> let_depth,
     in_preproc |-> in_preproc, pos |-> position, stack |-> stack,
     err |-> NoExc]

Commit(p) ==
    /\ heap' = p.heap
    /\ flows' = p.flows
    /\ procs' = p.procs
    /\ instructions' = p.ins
    /\ symbols' = p.symbols
    /\ globals' = p.globals
    /\ let_depth' = p.let_depth
    /\ in_preproc' = p.in_preproc
    /\ position' = p.pos
    /\ stack' = p.stack

\* Program.engine after __init__ without an engine: None.  An engine is
\* the record of what the driver asked of it: the calls of before and of
\* close, the steps as <<index, skip_count>>, the exit signal it raised
\* (-1: none) and its exited flag.
NoEngine ==
    [present |-> FALSE, before |-> 0, close |-> 0, log |-> <<>>,
     signal |-> -1, exited |-> FALSE]

\* _TypeChecker.__init__
TypeChecker0 ==
    [stack |-> <<>>, block_stack |-> <<>>, block_origin_stack |-> <<>>,
     locals |-> <<>>, procedures |-> EmptyDict, last_case |-> -1,
     err |-> NoExc]

\* Program.__init__ and the first next() of each coroutine
Init ==
    /\ pc = "lex"
    /\ err = NoExc
    /\ program \in DOMAIN Programs
    /\ sources = <<[toks |-> Programs[program].prefix, line |-> 1, path |-> ""]>>
    /\ free = MaxFree
    /\ nlex = 0
    /\ heap = <<>> /\ flows = <<>> /\ procs = <<>>
    /\ instructions = <<>>
    /\ symbols = EmptyDict /\ globals = EmptyDict
    /\ let_depth = 0 /\ in_preproc = 0 /\ position = 0
    /\ stack = <<>>
    /\ comment = -1 /\ tokens = <<>> /\ prev = None
    /\ tc = TypeChecker0 /\ pointer = 0 /\ resolved = <<>>
    /\ engine = NoEngine /\ returned = -1

(***************************************************************************)
(* The tokenizer (Tokenize): it reads the innermost source that still has  *)
(* lexemes; extend() puts a source in front.  A lexeme's line is counted   *)
(* within its own source.                                                  *)
(***************************************************************************)
RECURSIVE Live(_)
Live(srcs) ==
    IF Len(srcs) > 1 /\ Head(srcs).toks = <<>> THEN Live(Tail(srcs)) ELSE srcs

\* one lexeme `lex` on line `ln` goes through build_tokens
Tokenized(lex, ln) ==
    /\ nlex' = nlex + 1
    /\ UNCHANGED <<prev, tcvars, program, runvars>>
    /\ IF ln = comment
       THEN UNCHANGED <<pc, err, progvars, comment, tokens>>
       ELSE LET r == MatchRaises(lex) IN
            CASE r = "Comment" ->
                    /\ comment' = ln
                    /\ UNCHANGED <<pc, err, progvars, tokens>>
              [] r = "EndLine" ->
                    UNCHANGED <<pc, err, progvars, comment, tokens>>
              [] r \in {"UnknownToken", "InvalidType"} ->
                    /\ pc' = "error"
                    /\ err' = Exc(r, nlex + 1, "Is not a recognized symbol")
                    /\ UNCHANGED <<progvars, comment, tokens>>
              [] OTHER ->
                    LET b == build_tokens(Prog, lex, nlex + 1) IN
                    /\ Commit(b.p)
                    /\ tokens' = b.toks
                    /\ pc' = IF b.toks = <<>> THEN "lex" ELSE "send"
                    /\ UNCHANGED <<err, comment>>

\* the tokenizer delivers the next lexeme of a source
Read ==
    /\ pc = "lex"
    /\ LET live == Live(sources) IN
       /\ Head(live).toks # <<>>
       /\ LET lex == Head(Head(live).toks) IN
          /\ sources' = <<[toks |-> Tail(Head(live).toks),
                           line |-> Head(live).line
                                    + IF lex.type = "NEW_LINE" THEN 1 ELSE 0,
                           path |-> Head(live).path]>>
                        \o Tail(live)
          /\ free' = free
          /\ Tokenized(lex, Head(live).line)

\* ... or the next lexeme of the main source past its prefix
ReadFree ==
    /\ pc = "lex"
    /\ free > 0
    /\ LET live == Live(sources) IN
       /\ Len(live) = 1 /\ Head(live).toks = <<>>
       /\ \E lex \in Programs[program].alphabet :
            /\ sources' = <<[toks |-> <<>>,
                             line |-> Head(live).line
                                      + IF lex.type = "NEW_LINE" THEN 1 ELSE 0,
                             path |-> Head(live).path]>>
            /\ free' = free - 1
            /\ Tokenized(lex, Head(live).line)

\* parse_tokens sends one built token to flow_control, then to expand
Send ==
    /\ pc = "send"
    /\ LET t == Head(tokens)
           q == process_flow_control(Prog, t)
           x == expand(q, prev, t)
       IN IF Raised(q)
          THEN /\ Commit(q) /\ pc' = "error" /\ err' = q.err
               /\ UNCHANGED <<lexvars, covars, tcvars, runvars>>
          ELSE IF Raised(x.p)
          THEN /\ Commit(x.p) /\ pc' = "error" /\ err' = x.p.err
               /\ UNCHANGED <<lexvars, covars, tcvars, runvars>>
          ELSE /\ x.ext # "" => Len(sources) <= MaxNest
               /\ Commit(x.p)
               /\ prev' = t
               /\ tokens' = Tail(tokens)
               /\ pc' = IF Tail(tokens) = <<>> THEN "lex" ELSE "send"
               /\ sources' = IF x.ext # ""
                             THEN <<[toks |-> FileSystem[x.ext], line |-> 1,
                                     path |-> x.ext]>> \o sources
                             ELSE sources
               /\ UNCHANGED <<err, program, free, nlex, comment, tcvars, runvars>>

\* the tokenizer is exhausted: flow_control.send(None), then the positions
\* are renumbered
EndOfInput ==
    /\ pc = "lex"
    /\ LET live == Live(sources) IN Len(live) = 1 /\ Head(live).toks = <<>>
    /\ LET q == MissingEnd(Prog) IN
       IF Raised(q)
       THEN /\ pc' = "error" /\ err' = q.err
            /\ UNCHANGED <<heap>>
       ELSE /\ pc' = "parsed"
            /\ heap' = Renumber(heap, instructions, 1)
            /\ UNCHANGED <<err>>
    /\ UNCHANGED <<runvars, lexvars, flows, procs, instructions, symbols, globals,
                   let_depth, in_preproc, position, stack, covars, tcvars>>

(***************************************************************************)
(* The type checker's driver: every instruction in list order, then None.  *)
(***************************************************************************)
TCStep ==
    /\ pc \in {"parsed", "check"}
    /\ pointer < Len(instructions)
    /\ LET c == run(Prog, tc, instructions[pointer + 1]) IN
       /\ tc' = [c EXCEPT !.err = NoExc]
       /\ pointer' = pointer + 1
       /\ IF Ok(c)
          THEN pc' = "check" /\ UNCHANGED err
          ELSE pc' = "rejected" /\ err' = c.err
    /\ UNCHANGED <<lexvars, progvars, covars, resolved, runvars>>

TCEnd ==
    /\ pc \in {"parsed", "check"}
    /\ pointer = Len(instructions)
    /\ LET c == StackNotEmpty(Prog, tc) IN
       /\ tc' = [c EXCEPT !.err = NoExc]
       /\ IF Ok(c)
          THEN pc' = "checked" /\ UNCHANGED err
          ELSE pc' = "rejected" /\ err' = c.err
    /\ UNCHANGED <<lexvars, progvars, covars, pointer, resolved, runvars>>

(***************************************************************************)
(* A second pass of process_flow_control over the resolved program: a new  *)
(* coroutine is sent the instructions in list order, then None.            *)
(***************************************************************************)
\* what a pass may change: the list, the tokens with their flow links, the
\* symbol table
Snapshot(p) ==
    [ins     |-> p.ins,
     kinds   |-> [i \in 1..Len(p.ins) |-> TypeOf(p, p.ins[i])],
     links   |-> [i \in 1..Len(p.ins) |->
                    IF p.heap[p.ins[i]].vk = "flow" THEN FlowOf(p, p.ins[i])
                    ELSE FlowInfo(None, None)],
     symbols |-> p.symbols]

Reflow ==
    /\ pc = "parsed"
    /\ pc' = "reflow"
    /\ resolved' = Snapshot(Prog)
    /\ pointer' = 0
    /\ UNCHANGED <<err, lexvars, progvars, covars, tc, runvars>>

ReflowStep ==
    /\ pc = "reflow"
    /\ pointer < Len(instructions)
    /\ LET q == process_flow_control(Prog, instructions[pointer + 1]) IN
       /\ Commit(q)
       /\ pointer' = pointer + 1
       /\ IF Raised(q)
          THEN pc' = "reflow_error" /\ err' = q.err
          ELSE UNCHANGED <<pc, err>>
    /\ UNCHANGED <<lexvars, covars, tc, resolved, runvars>>

ReflowEnd ==
    /\ pc = "reflow"
    /\ pointer >= Len(instructions)
    /\ LET q == MissingEnd(Prog) IN
       IF Raised(q)
       THEN pc' = "reflow_error" /\ err' = q.err
       ELSE pc' = "reflowed" /\ UNCHANGED err
    /\ UNCHANGED <<lexvars, progvars, covars, tcvars, runvars>>

Next ==
    \/ Read \/ ReadFree \/ Send \/ EndOfInput
    \/ TCStep \/ TCEnd
    \/ Reflow \/ ReflowStep \/ ReflowEnd

Spec == Init /\ [][Next]_vars


(***************************************************************************)
(* derefType on its own: the values of a stack are dereferenced from the   *)
(* top, each until derefType raises.                                       *)
(***************************************************************************)
\* the types of pointer depth 0..MaxDepth over the base types
Types == {PtrN(b, k) : b \in BaseTypes, k \in 0..MaxDepth}

InitTypes ==
    /\ pc = "types"
    /\ err = NoExc
    /\ program = "effects"
    /\ sources = <<[toks |-> <<>>, line |-> 1, path |-> ""]>>
    /\ free = 0
    /\ nlex = 0
    /\ heap = <<>> /\ flows = <<>> /\ procs = <<>>
    /\ instructions = <<>>
    /\ symbols = EmptyDict /\ globals = EmptyDict
    /\ let_depth = 0 /\ in_preproc = 0 /\ position = 0
    /\ stack = <<>>
    /\ comment = -1 /\ tokens = <<>> /\ prev = None
    /\ \E t1 \in Types, t2 \in Types :
          tc = [TypeChecker0 EXCEPT !.stack = <<<<None, t1>>, <<None, t2>>>>]
    /\ pointer = 0 /\ resolved = <<>>
    /\ engine = NoEngine /\ returned = -1

\* the top of the stack becomes derefType of it, or derefType raises and
\* the value is dropped
Deref ==
    /\ pc = "types"
    /\ tc.stack # <<>>
    /\ LET t == TTop(tc)[2] IN
       IF derefRaises(t)
       THEN /\ err' = [kind |-> "ValueError", at |-> None,
                       msg |-> "Can't be deref'ed", cause |-> ""]
            /\ tc' = TPop(tc)
       ELSE /\ err' = NoExc
            /\ tc' = [tc EXCEPT !.stack[Len(tc.stack)] = <<@[1], derefType(t)>>]
    /\ UNCHANGED <<pc, lexvars, progvars, covars, pointer, resolved, runvars>>

NextTypes == Deref

SpecTypes == InitTypes /\ [][NextTypes]_vars

(***************************************************************************)
(* match_token on cast lexemes alone: a source of two cast spellings, each *)
(* a base name (the eight known ones and one unknown) followed by          *)
(* 0..MaxDepth stars, is matched lexeme by lexeme.                         *)
(***************************************************************************)
CastSpellings ==
    {C(b, k) : b \in CastBases \cup {"float"}, k \in 0..MaxDepth}

InitCast ==
    /\ pc = "cast"
    /\ err = NoExc
    /\ program = "effects"
    /\ \E c1 \in CastSpellings, c2 \in CastSpellings :
          sources = <<[toks |-> <<c1, c2>>, line |-> 1, path |-> ""]>>
    /\ free = 0
    /\ nlex = 0
    /\ heap = <<>> /\ flows = <<>> /\ procs = <<>>
    /\ instructions = <<>>
    /\ symbols = EmptyDict /\ globals = EmptyDict
    /\ let_depth = 0 /\ in_preproc = 0 /\ position = 0
    /\ stack = <<>>
    /\ comment = -1 /\ tokens = <<>> /\ prev = None
    /\ tc = TypeChecker0 /\ pointer = 0 /\ resolved = <<>>
    /\ engine = NoEngine /\ returned = -1

\* match_token(lexeme): the CAST token carrying StrToType of the spelling,
\* or InvalidType when StrToType returns None
Cast ==
    /\ pc = "cast"
    /\ Head(sources).toks # <<>>
    /\ LET lex == Head(Head(sources).toks) IN
       /\ sources' = <<[Head(sources) EXCEPT !.toks = Tail(@)]>>
       /\ nlex' = nlex + 1
       /\ IF MatchRaises(lex) # ""
          THEN /\ err' = Exc(MatchRaises(lex), nlex + 1, "is not a recognized type")
               /\ UNCHANGED <<progvars, tokens>>
          ELSE LET b == match_token(Prog, lex, nlex + 1) IN
               /\ Commit(b.p)
               /\ tokens' = b.toks
               /\ err' = NoExc
    /\ UNCHANGED <<pc, program, free, comment, prev, tcvars, runvars>>

NextCast == Cast

SpecCast == InitCast /\ [][NextCast]_vars

(***************************************************************************)
(* Program.run: the driver of an engine over a parsed program.  The engine *)
(* is not part of the sources at hand: a step answers with a skip count    *)
(* (-1 repeats the token) and may set the engine's exited flag, or raises  *)
(* the exit signal with a code.                                            *)
(***************************************************************************)
ExitCodes == {0, 1, 2}

\* a program of n instructions, with or without an engine
InitRun ==
    /\ pc = "run"
    /\ err = NoExc
    /\ program = "effects"
    /\ sources = <<[toks |-> <<>>, line |-> 1, path |-> ""]>>
    /\ free = 0
    /\ nlex = 0
    /\ \E n \in 0..MaxRun :
          /\ heap = [i \in 1..n |-> [Token("OP_PUSH", "lit", "1", <<>>, i, "1")
                                       EXCEPT !.position = i - 1]]
          /\ instructions = [i \in 1..n |-> i]
          /\ position = n
    /\ flows = <<>> /\ procs = <<>>
    /\ symbols = EmptyDict /\ globals = EmptyDict
    /\ let_depth = 0 /\ in_preproc = 0
    /\ stack = <<>>
    /\ comment = -1 /\ tokens = <<>> /\ prev = None
    /\ tc = TypeChecker0 /\ pointer = 0 /\ resolved = <<>>
    /\ engine \in {NoEngine, [NoEngine EXCEPT !.present = TRUE]}
    /\ returned = -1

\* self.pointer += skip_count + 1, without the step itself
AdvanceBySkip(ptr, skip) == ptr + skip

\* self.pointer += self.engine.step(...) + 1
Advance(ptr, skip) == ptr + skip + 1

\* the two checks of run, then engine.before(self)
RunBefore ==
    /\ pc = "run"
    /\ IF instructions = <<>>
       THEN /\ pc' = "raised"
            /\ err' = Exc("AssertionError", None, "Empty program")
            /\ UNCHANGED engine
       ELSE IF ~engine.present
       THEN /\ pc' = "raised"
            /\ err' = Exc("NoEngine", None, "Add engine before running")
            /\ UNCHANGED engine
       ELSE /\ pc' = "loop"
            /\ engine' = [engine EXCEPT !.before = @ + 1]
            /\ UNCHANGED err
    /\ UNCHANGED <<lexvars, progvars, covars, tcvars, returned>>

\* one turn of the loop: engine.step on instructions[pointer] answers a
\* skip count, or raises ExitFromEngine and run closes the engine and
\* returns the code
RunStep ==
    /\ pc = "loop"
    /\ pointer < Len(instructions)
    /\ \/ \E skip \in -1..MaxSkip, ex \in BOOLEAN :
            /\ Len(engine.log) < MaxSteps
            /\ engine' = [engine EXCEPT !.log = Append(@, <<pointer, skip>>),
                                        !.exited = @ \/ ex]
            /\ pointer' = Advance(pointer, skip)
            /\ UNCHANGED <<pc, returned>>
       \/ \E c \in ExitCodes :
            /\ engine' = [engine EXCEPT !.signal = c, !.close = @ + 1]
            /\ returned' = c
            /\ pc' = "returned"
            /\ UNCHANGED pointer
    /\ UNCHANGED <<err, lexvars, progvars, covars, tc, resolved>>

\* the pointer passed the end of the list
RunEnd ==
    /\ pc = "loop"
    /\ pointer >= Len(instructions)
    /\ engine' = [engine EXCEPT !.close = @ + 1]
    /\ IF ~engine.exited
       THEN /\ pc' = "raised"
            /\ err' = Exc("InvalidSyntax", heap[instructions[Len(instructions)]].info,
                          "Program was not exited properly")
            /\ UNCHANGED returned
       ELSE /\ pc' = "returned"
            /\ returned' = 0
            /\ UNCHANGED err
    /\ UNCHANGED <<lexvars, progvars, covars, tcvars>>

NextRun == RunBefore \/ RunStep \/ RunEnd

SpecRun == InitRun /\ [][NextRun]_vars

(***************************************************************************)
(* Properties.                                                             *)
(***************************************************************************)
\* the parser accepted the program
Accepted == pc \notin {"lex", "send", "error", "types"}

Instr(i) == heap[instructions[i]]

\* the lexeme numbered n of a program that is its prefix
LexemeAt(n) == Programs[program].prefix[n]

\* C1: after parse_tokens returns for an accepted program, every index i of
\* the instruction list satisfies instructions[i].position == i.
C1_PositionIsIndex ==
    pc = "parsed" =>
        \A i \in 1..Len(instructions) : Instr(i).position = i - 1

\* the END that closes the opener at index i of the list, None if it has
\* none; a PROC holds it as its Procedure's closer
EndOf(i) ==
    IF Instr(i).vk = "flow" THEN flows[Instr(i).ref].end
    ELSE IF Instr(i).vk = "proc" THEN procs[Instr(i).ref].closer
    ELSE None

RootOf(i) ==
    IF Instr(i).vk = "flow" THEN flows[Instr(i).ref].root
    ELSE instructions[i]

Openers == {"OP_IF", "OP_ELIF", "OP_ELSE", "OP_WHILE", "OP_LET", "OP_WITH", "PROC"}

\* C2: after the flow resolver accepted a program, every block opener left
\* in the instruction list (IF, ELIF, ELSE, WHILE, LET, WITH, PROC) has a
\* flow end that is an END token whose flow root is the opener's flow root.
C2_OpenersReachEnd ==
    pc = "parsed" =>
        \A i \in 1..Len(instructions) :
            Instr(i).type \in Openers =>
                /\ EndOf(i) # None
                /\ heap[EndOf(i)].type = "OP_END"
                /\ heap[EndOf(i)].vk = "flow"
                /\ flows[heap[EndOf(i)].ref].root = RootOf(i)

\* C3: after parsing of an accepted program the instruction list holds no
\* token of kind MACRO, IN, OUT, MEMORY or INCLUDE.
C3_NoPreprocessingTokens ==
    pc = "parsed" =>
        \A i \in 1..Len(instructions) :
            Instr(i).type \notin {"MACRO", "IN", "OUT", "MEMORY", "INCLUDE"}

\* C4: a name once installed in the symbol table is never overwritten or
\* removed: every step leaves every installed name bound to the symbol it
\* was bound to.
C4_SymbolsNeverOverwritten ==
    [][\A n \in DOMAIN symbols : n \in DOMAIN symbols' /\ symbols'[n] = symbols[n]]_vars

\* a definition of an installed name was attempted and raised
C4_RedefinitionRaised ==
    /\ pc = "error"
    /\ err.kind = "SymbolRedefined"
    /\ symbols # EmptyDict

\* C5: derefType(PTR[T]) returns T for every type T, and derefType(T)
\* raises for every T that has no parent.
C5_DerefInvertsPtr ==
    [][(pc = "types" /\ tc.stack # <<>>) =>
          LET t == TTop(tc)[2] IN
          /\ (Len(t) >= 2 /\ Head(t) = "PTR") =>
                /\ err' = NoExc
                /\ Len(tc'.stack) = Len(tc.stack)
                /\ TTop(tc')[2] = Tail(t)
          /\ Len(t) = 1 =>
                /\ err'.kind = "ValueError"
                /\ Len(tc'.stack) = Len(tc.stack) - 1]_vars

\* C6: a second pass of the flow resolver over a resolved program raises no
\* error and leaves the instruction list, the flow links of every token and
\* the symbol table as they were.
C6_SecondPassIsNoOp ==
    /\ pc # "reflow_error"
    /\ pc = "reflowed" => Snapshot(Prog) = resolved

\* the step that sends None to the type checker
EndOfProgram ==
    /\ pc \in {"parsed", "check"}
    /\ pc' \in {"checked", "rejected"}
    /\ pointer' = pointer

\* C7: at the end of the program a non-empty abstract stack raises
\* StackNotEmpty located at the token the top value came from, an empty one
\* raises nothing; for 1 2 + the error is located at the + token.
C7_StackNotEmptyAtTop ==
    [][EndOfProgram =>
          /\ tc.stack # <<>> =>
                /\ pc' = "rejected"
                /\ err'.kind = "StackNotEmpty"
                /\ err'.at = heap[TTop(tc)[1]].info
          /\ tc.stack = <<>> => (pc' = "checked" /\ err' = NoExc)
          /\ program = "sum" =>
                (err'.kind = "StackNotEmpty" /\ LexemeAt(err'.at) = O("+"))]_vars

\* two values from different tokens were left at the end of the program
C7_TwoValuesLeft ==
    /\ pc = "rejected"
    /\ err.kind = "StackNotEmpty"
    /\ pointer = Len(instructions)
    /\ Len(tc.stack) >= 1
    /\ heap[TTop(tc)[1]].info # err.at

\* C8 as stated: 1 2 > if 10 dump else 20 dump end 0 exit is accepted by
\* the flow resolver and by the type checker.
C8_IfElseAccepted ==
    program = "ifelse" => pc \notin {"error", "rejected"}

\* C8 amended: the program is accepted by the flow resolver, and the type
\* checker rejects it at the end of the program with StackNotEmpty located
\* at the > token, whose BOOL no token consumed.
C8_IfElseLeavesBool ==
    program = "ifelse" =>
        /\ pc \notin {"error", "checked"}
        /\ pc = "rejected" =>
              /\ err.kind = "StackNotEmpty"
              /\ LexemeAt(err.at) = O(">")
              /\ pointer = Len(instructions)

C8_IfElseRejected ==
    program = "ifelse" /\ pc = "rejected" /\ err.kind = "StackNotEmpty"

\* C9 as stated: proc square int in int out dup * end 5 square dump 0 exit
\* is accepted by the parser, defines square and type-checks.
C9_SquareAccepted ==
    program \in {"square", "squareword"} =>
        /\ pc \notin {"error", "rejected"}
        /\ Accepted => "square" \in DOMAIN symbols

\* C9 amended: the parser rejects the program when the proc is closed:
\* procedureFactory raises InvalidSyntax, Invalid procedure argument syntax,
\* at the proc token, and square is not defined, whether int is lexed as a
\* CAST or as a WORD.
C9_SquareRejectedByFactory ==
    program \in {"square", "squareword"} =>
        /\ pc \in {"lex", "send", "error"}
        /\ "square" \notin DOMAIN symbols
        /\ pc = "error" =>
              /\ err.kind = "InvalidSyntax"
              /\ err.msg = "Invalid procedure argument syntax"
              /\ LexemeAt(err.at) = W("proc")

C9_FactoryRaised ==
    program = "square" /\ pc = "error" /\ err.kind = "InvalidSyntax"

C11_IncludeNeedsString ==
    (prev # None /\ heap[prev].type = "INCLUDE") =>
        /\ ~Accepted
        /\ (pc = "error" /\ tokens # <<>>
              /\ heap[Head(tokens)].type # "OP_STRING")
           => err.kind = "InvalidSyntax"

\* C12: include expansion deduplicates by path, so a source that includes
\* itself is not expanded without bound: no path is open twice among the
\* sources the tokenizer is reading
C12_NoPathOpenTwice ==
    \A i \in DOMAIN sources : \A j \in DOMAIN sources :
        i # j => sources[i].path # sources[j].path

\* C13: at the end of the input the flow resolver raises InvalidSyntax
\* "is missing an end" exactly when its stack of unclosed openers is not
\* empty, and the error carries the span of the innermost one; with an
\* empty stack the input is accepted, and the parser raises that error at
\* no other moment
C13_MissingEndAtInnermost ==
    [][/\ (pc = "lex" /\ pc' \in {"parsed", "error"} /\ nlex' = nlex) =>
            IF stack # <<>>
            THEN /\ pc' = "error"
                 /\ err'.kind = "InvalidSyntax"
                 /\ err'.msg = "is missing an end"
                 /\ err'.at = heap[stack[Len(stack)][1]].info
            ELSE pc' = "parsed" /\ err' = NoExc
       /\ (pc # "error" /\ pc' = "error" /\ err'.msg = "is missing an end") =>
            (pc = "lex" /\ nlex' = nlex /\ stack # <<>>)
      ]_vars

\* two blocks are open at the end of the input and the inner one is reported
C13_TwoUnclosed ==
    /\ pc = "error" /\ err.msg = "is missing an end"
    /\ Len(stack) >= 2
    /\ err.at = heap[stack[Len(stack)][1]].info
    /\ err.at # heap[stack[1][1]].info

\* the kind of the innermost entry of the resolver's stack, "" when empty
TopKind == IF stack = <<>> THEN "" ELSE heap[stack[Len(stack)][1]].type

\* the ELSE tokens of the list that belong to the chain of `root`
ElsesOf(root) ==
    {i \in 1..Len(instructions) :
        /\ Instr(i).type = "OP_ELSE" /\ Instr(i).vk = "flow"
        /\ flows[Instr(i).ref].root = root}

\* every chain has at most one ELSE, nothing follows it in the chain and
\* the END that closes the chain comes right after it
ElseIsLast ==
    \A i \in 1..Len(instructions) :
        (Instr(i).type = "OP_ELSE" /\ Instr(i).vk = "flow") =>
            LET f == flows[Instr(i).ref] IN
            /\ Cardinality(ElsesOf(f.root)) = 1
            /\ f.next = None
            /\ f.end # None => flows[heap[f.end].ref].prev = instructions[i]

\* C14: an ELIF or ELSE sent when the stack is empty or its top is neither
\* IF nor ELIF, an END sent when the stack is empty, and a DO sent when the
\* stack is empty or its top is not IF, ELIF, WHILE, LET or WITH, each raise
\* InvalidSyntax; so in an accepted program an if-chain has at most one
\* ELSE and it is the last member before the END
C14_UnmatchedBranchRaises ==
    [][/\ (pc = "send" /\
            LET k == heap[Head(tokens)].type IN
            \/ k \in {"OP_ELIF", "OP_ELSE"} /\ TopKind \notin {"OP_IF", "OP_ELIF"}
            \/ k = "OP_END" /\ stack = <<>>
            \/ k = "OP_DO" /\ TopKind \notin {"OP_IF", "OP_ELIF", "OP_WHILE",
                                              "OP_LET", "OP_WITH"})
          => (pc' = "error" /\ err'.kind = "InvalidSyntax")
       /\ (pc' = "parsed") => ElseIsLast'
      ]_vars

\* a second ELSE of the same chain is refused
C14_SecondElseRefused ==
    /\ pc = "error" /\ err.kind = "InvalidSyntax"
    /\ tokens # <<>> /\ heap[Head(tokens)].type = "OP_ELSE"
    /\ \E i \in 1..Len(instructions) :
          Instr(i).type = "OP_ELSE" /\ instructions[i] # Head(tokens)

\* a macro, proc or memory definition is open: its opener, or the IN or OUT
\* of the proc, is on the resolver's stack
DefinitionOpen ==
    \E i \in DOMAIN stack :
        heap[stack[i][1]].type \in {"MACRO", "PROC", "IN", "OUT", "MEMORY"}

\* the token is the opener of a definition (not a reference to one)
IsOpener(t) ==
    \/ heap[t].type = "MACRO"
    \/ heap[t].type \in {"PROC", "MEMORY"} /\ heap[t].vk = "none"

\* C15: while a proc, macro or memory definition is open, the body of a
\* proc after its in or out included, a further proc, macro or memory
\* opener is rejected with InvalidSyntax
C15_NoNestedDefinition ==
    [][(pc = "send" /\ DefinitionOpen /\ IsOpener(Head(tokens)))
          => (pc' = "error" /\ err'.kind = "InvalidSyntax")
      ]_vars

\* the name the source spells where the token stands: a word, the LABEL of
\* a macro expansion and a CALL carry it, a reference to a memory carries
\* the name token of its definition
SpelledName(t) ==
    CASE heap[t].type \in {"OP_WORD", "OP_LABEL", "CALL"} -> heap[t].str
      [] heap[t].type = "MEMORY" /\ heap[t].vk = "flow"
            /\ flows[heap[t].ref].hasdata ->
                heap[flows[heap[t].ref].data[1]].str
      [] OTHER -> ""

\* the opener of the definition the innermost stack entry belongs to
OpenDefinition == flows[stack[Len(stack)][2]].root

\* the name of that definition: what the token after its opener spells,
\* "" when the END follows the opener at once
OpenName ==
    LET i == CHOOSE n \in 1..Len(instructions) : instructions[n] = OpenDefinition
    IN IF i + 1 < Len(instructions) THEN SpelledName(instructions[i + 1]) ELSE ""

\* an END closes a definition
ClosesDefinition ==
    /\ pc = "send" /\ heap[Head(tokens)].type = "OP_END"
    /\ TopKind \in {"MACRO", "MEMORY", "PROC", "IN", "OUT"}

\* C16: a macro, proc or memory definition whose name is already in the
\* symbol table, whatever the kind of the symbol, is rejected with
\* SymbolRedefined
C16_RedefinitionIsSymbolRedefined ==
    [][(ClosesDefinition /\ OpenName \in DOMAIN symbols)
          => (pc' = "error" /\ err'.kind = "SymbolRedefined")
      ]_vars

\* the token that follows the opener of the open definition in the list
AfterOpener ==
    LET i == CHOOSE n \in 1..Len(instructions) : instructions[n] = OpenDefinition
    IN instructions[i + 1]

\* the END closes a definition that lacks a part: a macro or a memory with
\* nothing after the opener, a proc with neither in nor out, a proc whose
\* opener is followed at once by its in or out
Malformed ==
    /\ ClosesDefinition
    /\ \/ TopKind \in {"MACRO", "MEMORY"} /\ AfterOpener = Head(tokens)
       \/ TopKind = "PROC"
       \/ TopKind \in {"IN", "OUT"} /\ heap[AfterOpener].type \in {"IN", "OUT"}

\* C17: a malformed definition is reported as InvalidSyntax and as no other
\* failure: a macro or memory closed by end with no name, a proc with no
\* name, a proc closed by end without in or out
C17_MalformedIsInvalidSyntax ==
    [][Malformed => (pc' = "error" /\ err'.kind = "InvalidSyntax")]_vars

\* the type a base name stands for
CastAlias(b) ==
    CASE b \in {"any", "void"}  -> ANY
      [] b \in {"int", "dword"} -> INT
      [] b \in {"char", "byte"} -> CHAR
      [] b = "bool"             -> BOOL
      [] b = "ptr"              -> PTR

\* C18: a cast spelled as one of the eight base names followed by k stars
\* becomes one CAST token whose type is the aliased base type wrapped in
\* exactly k pointer levels; an unknown base makes match_token raise
\* InvalidType
C18_CastSpellingType ==
    [][(pc = "cast" /\ Head(sources).toks # <<>>) =>
          LET lex == Head(Head(sources).toks) IN
          IF lex.string \in {"any", "void", "int", "ptr", "bool", "char",
                             "byte", "dword"}
          THEN /\ err' = NoExc
               /\ Len(tokens') = 1
               /\ heap'[tokens'[1]].type = "CAST"
               /\ heap'[tokens'[1]].ty = PtrN(CastAlias(lex.string), lex.stars)
          ELSE err'.kind = "InvalidType"
      ]_vars

\* the next lexeme of the source text is a word that names a memory
ReadsMemoryWord ==
    /\ pc = "lex"
    /\ Head(Live(sources)).toks # <<>>
    /\ LET lex == Head(Head(Live(sources)).toks) IN
       /\ lex.type = "WORD"
       /\ lex.string \in DOMAIN symbols
       /\ symbols[lex.string].type = "MEMORY"

\* the type checker is handed the token of a reference to a memory
ChecksMemoryWord ==
    /\ pc \in {"parsed", "check"} /\ pc' # "reflow"
    /\ pointer < Len(instructions)
    /\ Instr(pointer + 1).type \in {"MEMORY", "OP_PUSHMEMORY"}

\* C19: a word that names a memory in scope becomes exactly one token of
\* kind PUSHMEMORY, and the type checker handles that token by pushing one
\* pointer value
C19_MemoryWordPushesPointer ==
    [][/\ ReadsMemoryWord =>
            (Len(tokens') = 1 /\ heap'[tokens'[1]].type = "OP_PUSHMEMORY")
       /\ ChecksMemoryWord =>
            /\ pc' = "check"
            /\ Len(tc'.stack) = Len(tc.stack) + 1
            /\ Head(TTop(tc')[2]) = "PTR"
      ]_vars

\* the type checker is handed a BAND, BOR or BXOR with two values at least
\* on its stack
ChecksBitOperator ==
    /\ pc \in {"parsed", "check"} /\ pc' # "reflow"
    /\ pointer < Len(instructions)
    /\ Instr(pointer + 1).type \in {"OP_BAND", "OP_BOR", "OP_BXOR"}
    /\ Len(tc.stack) >= 2

\* the step pops two values and pushes one of type t
BitPushes(t) ==
    /\ pc' = "check"
    /\ Len(tc'.stack) = Len(tc.stack) - 1
    /\ TTop(tc')[2] = t

\* C20: for BAND, BOR and BXOR the type checker pops two values and pushes
\* one whose type is INT for (INT, INT), CHAR for (CHAR, CHAR) and BOOL for
\* (BOOL, BOOL); any other pair of operands is rejected with InvalidType
C20_BitOperatorTypes ==
    [][ChecksBitOperator =>
          LET a == tc.stack[Len(tc.stack) - 1][2]
              b == tc.stack[Len(tc.stack)][2]
          IN CASE a = INT /\ b = INT   -> BitPushes(INT)
               [] a = CHAR /\ b = CHAR -> BitPushes(CHAR)
               [] a = BOOL /\ b = BOOL -> BitPushes(BOOL)
               [] OTHER -> pc' = "rejected" /\ err'.kind = "InvalidType"
      ]_vars

\* the type checker is handed a token of kind k with two values at least on
\* its stack
ChecksBinary(k) ==
    /\ pc \in {"parsed", "check"} /\ pc' # "reflow"
    /\ pointer < Len(instructions)
    /\ Instr(pointer + 1).type = k
    /\ Len(tc.stack) >= 2

\* a pointer type, whatever it points to
IsPtr(t) == Head(t) = "PTR"

\* the step pops two values and pushes one pointer
PushesPtr ==
    /\ pc' = "check"
    /\ Len(tc'.stack) = Len(tc.stack) - 1
    /\ IsPtr(TTop(tc')[2])

\* the step refuses the operands
RefusesType == pc' = "rejected" /\ err'.kind = "InvalidType"

\* the step pops two values and pushes one, or refuses the operands
PushesOrRefuses ==
    \/ pc' = "check" /\ Len(tc'.stack) = Len(tc.stack) - 1
    \/ RefusesType

CasesOf(k) ==
    CASE k = "OP_PLUS"                             -> PlusCases
      [] k = "OP_MINUS"                            -> MinusCases
      [] k \in {"OP_INCREMENT", "OP_DECREMENT"}    -> UnaryCases
      [] k \in {"OP_BAND", "OP_BOR", "OP_BXOR"}    -> BitCases

\* the cases (numbered from 0) that the values on top of the stack match,
\* slot by slot from the top
MatchingCases(cases, stk) ==
    {i \in 0..(Len(cases) - 1) :
        \A n \in 1..Len(cases[1]) :
            TypeEq(cases[i + 1][n], stk[Len(stk) + 1 - n][2])}

\* C22: whenever check_comb succeeds for an overloaded operator (PLUS,
\* MINUS, INCREMENT, DECREMENT, BAND, BOR, BXOR), values typed ANY
\* included, exactly one case matches the popped types and the index
\* returned is that case
C22_ExactlyOneCase ==
    [][(/\ pc \in {"parsed", "check"} /\ pc' = "check"
        /\ pointer < Len(instructions)
        /\ Instr(pointer + 1).type \in
              {"OP_PLUS", "OP_MINUS", "OP_INCREMENT", "OP_DECREMENT",
               "OP_BAND", "OP_BOR", "OP_BXOR"})
       => LET m == MatchingCases(CasesOf(Instr(pointer + 1).type), tc.stack)
          IN Cardinality(m) = 1 /\ tc'.last_case \in m
      ]_vars

\* run got past its two checks: it is in the loop, or it ended after it
RunStarted ==
    \/ pc \in {"loop", "returned"}
    \/ pc = "raised" /\ err.kind = "InvalidSyntax"

\* where the pointer stands after the steps taken so far
PointerAfterLog ==
    IF engine.log = <<>> THEN 0
    ELSE LET l == engine.log[Len(engine.log)] IN l[1] + l[2] + 1

\* C23: run calls engine.before once before the first step, steps the
\* tokens from index 0 and advances the pointer by skip_count + 1 after
\* each step, calls engine.close once after the last step; when the engine
\* raises its exit signal with code c run returns c; when the pointer
\* passes the end of the list run returns 0 if the engine reports it
\* exited and raises InvalidSyntax "Program was not exited properly"
\* otherwise
C23_RunDrivesEngine ==
    /\ engine.before = (IF RunStarted THEN 1 ELSE 0)
    /\ engine.log # <<>> => (RunStarted /\ engine.log[1][1] = 0)
    /\ \A i \in 1..(Len(engine.log) - 1) :
          engine.log[i + 1][1] = engine.log[i][1] + engine.log[i][2] + 1
    /\ RunStarted => pointer = PointerAfterLog
    /\ engine.close = (IF RunStarted /\ pc # "loop" THEN 1 ELSE 0)
    /\ engine.signal # -1 => (pc = "returned" /\ returned = engine.signal)
    /\ (RunStarted /\ pc # "loop" /\ engine.signal = -1) =>
          /\ pointer >= Len(instructions)
          /\ IF engine.exited
             THEN pc = "returned" /\ returned = 0
             ELSE /\ pc = "raised"
                  /\ err.msg = "Program was not exited properly"
    /\ pc = "returned" <=> returned # -1

\* a run of several steps, one of them skipping a token, that passed the
\* end of the list and returned 0
C23_RanToTheEnd ==
    /\ pc = "returned" /\ returned = 0 /\ engine.signal = -1
    /\ Len(instructions) = 3 /\ Len(engine.log) = 2
    /\ engine.log[1][2] = 1

\* the tokenizer is about to deliver a lexeme of an included file, and no
\* comment was opened in the part of that file read so far
ReadsUncommented ==
    /\ pc = "lex"
    /\ LET src  == Head(Live(sources))
           text == FileSystem[src.path]
       IN /\ src.path # "" /\ src.toks # <<>>
          /\ Head(src.toks).type \notin {"NEW_LINE", "OP"}
          /\ \A i \in 1..(Len(text) - Len(src.toks)) : text[i] # O("//")

\* C24: a comment discards only the tokens that follow it on its line of
\* its own file; tokens of another file of the include chain are kept,
\* also on a line that has the number of the commented line: a lexeme of
\* an included file in which no comment was opened becomes tokens
C24_OtherFileKept ==
    [][ReadsUncommented => (pc' \in {"send", "error"} /\ tokens' # <<>>)]_vars

\* the type checker is about to take the END that closes a block of the
\* given kinds
ChecksEndOf(kinds) ==
    /\ pc \in {"parsed", "check"} /\ pc' # "reflow"
    /\ pointer < Len(instructions)
    /\ Instr(pointer + 1).type = "OP_END"
    /\ TypeOf(Prog, FlowOf(Prog, instructions[pointer + 1]).root) \in kinds

\* C25: the names bound by a let, a with or the argument list of a proc
\* are visible only inside the block: the END that closes the block and is
\* accepted removes the scope the opener pushed, so the locals stack is one
\* shorter and a later WORD looks the name up in the outer scopes only
C25_ScopeEndsAtEnd ==
    [][(ChecksEndOf({"OP_LET", "OP_WITH", "PROC"}) /\ pc' = "check")
          => tc'.locals = Front(tc.locals)]_vars

\* the tokens met by following prev from a token, at most n of them
RECURSIVE PrevWalk(_, _, _, _)
PrevWalk(hp, fl, node, n) ==
    IF node = None \/ n = 0 THEN <<>>
    ELSE <<node>> \o PrevWalk(hp, fl, fl[hp[node].ref].prev, n - 1)

\* the IF, ELIF and ELSE tokens whose flow has the given root
MembersOf(hp, fl, root) ==
    {t \in DOMAIN hp :
        /\ hp[t].type \in {"OP_IF", "OP_ELIF", "OP_ELSE"} /\ hp[t].vk = "flow"
        /\ fl[hp[t].ref].root = root}

\* the END token e closed a chain: its members all end at e and agree on
\* haselse, and the walk from e meets each of them once, the root IF last
ChainClosed(hp, fl, e) ==
    LET root == fl[hp[e].ref].root
        mem  == MembersOf(hp, fl, root)
        walk == PrevWalk(hp, fl, e, Len(hp) + 1)
        else == \E t \in mem : hp[t].type = "OP_ELSE"
    IN /\ \A t \in mem : fl[hp[t].ref].end = e /\ fl[hp[t].ref].haselse = else
       /\ walk[1] = e /\ {walk[i] : i \in 2..Len(walk)} = mem
       /\ \A i, j \in 1..Len(walk) : walk[i] = walk[j] => i = j
       /\ walk[Len(walk)] = root /\ hp[root].type = "OP_IF"

\* C26: the END that closes an if chain gives every member of the chain
\* (the IF, each ELIF, the ELSE) that END as flow end and the same haselse,
\* true exactly when the chain has an ELSE; following prev from the END
\* meets every member once and stops at the IF that is the root
C26_ChainClosedByEnd ==
    [][(/\ pc = "send" /\ heap[Head(tokens)].type = "OP_END"
        /\ TopKind \in {"OP_IF", "OP_ELIF", "OP_ELSE"}
        /\ pc' # "error")
          => ChainClosed(heap', flows', Head(tokens))]_vars

\* a chain of an IF, two ELIF and an ELSE was closed
C26_FourMembers ==
    /\ program = "chain" /\ pc = "parsed"
    /\ Instr(Len(instructions)).type = "OP_END"
    /\ ChainClosed(heap, flows, instructions[Len(instructions)])
    /\ Cardinality(MembersOf(heap, flows,
                   flows[Instr(Len(instructions)).ref].root)) = 4
    /\ flows[Instr(1).ref].haselse

\* the type checker is about to take an ELIF, with the snapshots in place
ChecksElif ==
    /\ pc \in {"parsed", "check"} /\ pc' # "reflow"
    /\ pointer < Len(instructions)
    /\ Instr(pointer + 1).type = "OP_ELIF"
    /\ tc.block_stack # <<>> /\ tc.block_origin_stack # <<>>

\* the stack has the length and, place by place, the types of the snapshot
\* on top of block_stack
SameAsSnapshot ==
    LET snap == Last(tc.block_stack) IN
    /\ Len(tc.stack) = Len(snap)
    /\ \A i \in 1..Len(snap) : TypeEq(snap[i][2], tc.stack[i][2])

\* the ELIF about to be taken is one that compares: it follows an ELIF, or
\* it follows the IF of a chain without ELSE
ElifCompares ==
    LET fl == flows[Instr(pointer + 1).ref] IN
    \/ heap[fl.prev].type = "OP_ELIF"
    \/ heap[fl.prev].type = "OP_IF" /\ ~fl.haselse

ElifAccepted ==
    pc' = "check" /\ tc'.stack = Last(tc.block_origin_stack)

ElifRejected ==
    pc' = "rejected" /\ err'.kind \in {"AddedToken", "MissingToken", "Reporting"}

\* C27: an ELIF that follows an ELIF, or the IF of a chain without ELSE,
\* compares the stack with the snapshot on top of block_stack and rejects
\* with AddedToken, MissingToken or Reporting unless both have the same
\* length and the same types place by place; every other ELIF (the one
\* right after the IF of a chain that has an ELSE) is accepted whatever the
\* stack is; after an accepted ELIF the stack is the origin snapshot
C27_ElifComparesSnapshot ==
    [][ChecksElif =>
          IF ElifCompares /\ ~SameAsSnapshot THEN ElifRejected
          ELSE ElifAccepted]_vars

\* the second ELIF of a chain was compared with the branch before it and
\* accepted
C27_SecondElifAccepted ==
    /\ program = "branches" /\ pc = "check" /\ pointer = 9
    /\ Instr(9).type = "OP_ELIF" /\ heap[flows[Instr(9).ref].prev].type = "OP_ELIF"
    /\ tc.stack = <<>> /\ Len(Last(tc.block_stack)) = 1

\* C27 as stated: every ELIF is accepted exactly when the stack has the
\* length and the types of the snapshot on top of block_stack
C27_EveryElifCompares ==
    [][ChecksElif =>
          IF SameAsSnapshot THEN ElifAccepted ELSE ElifRejected]_vars

\* the type checker is about to take a token of the given kind that belongs
\* to a while loop, with the snapshot of the WHILE in place
ChecksWhile(k) ==
    /\ pc \in {"parsed", "check"} /\ pc' # "reflow"
    /\ pointer < Len(instructions)
    /\ Instr(pointer + 1).type = k
    /\ TypeOf(Prog, FlowOf(Prog, instructions[pointer + 1]).root) = "OP_WHILE"
    /\ tc.block_stack # <<>> /\ tc.block_origin_stack # <<>>

\* the stack is the snapshot on top of block_stack with n more values
SnapshotPlus(n) ==
    LET snap == Last(tc.block_stack) IN
    /\ Len(tc.stack) = Len(snap) + n
    /\ \A i \in 1..Len(snap) : TypeEq(snap[i][2], tc.stack[i][2])

\* C28: the DO of a while loop is accepted exactly when the stack is the
\* snapshot taken at the WHILE (same length, same types) with one BOOL on
\* top; any other stack is rejected with WhileException, or with the
\* error of the check of the BOOL (NotEnoughTokens, InvalidType); the END
\* of the loop is accepted exactly when the stack equals the snapshot
C28_WhileKeepsSnapshot ==
    [][/\ ChecksWhile("OP_DO") =>
            IF SnapshotPlus(1) /\ TypeEq(tc.stack[Len(tc.stack)][2], BOOL)
            THEN pc' = "check"
            ELSE /\ pc' = "rejected"
                 /\ err'.kind \in {"WhileException", "NotEnoughTokens",
                                   "InvalidType", "Reporting"}
       /\ ChecksWhile("OP_END") =>
            IF SnapshotPlus(0) THEN pc' = "check" ELSE pc' = "rejected"
      ]_vars

\* the out types of the proc whose END the type checker is about to take
OutTypes ==
    LET procedure == procs[heap[flows[Instr(pointer + 1).ref].root].ref]
    IN [i \in 1..Len(procedure.out) |-> procedure.out[i][2]]

\* C29: at the END of a proc the stack of the body is checked against the
\* declared out types, the first of them against the top of the stack: a
\* stack with fewer values than out types raises NotEnoughTokens, a value
\* of another type raises InvalidType (reported through a Reporting that
\* points at the value), a value left under the out types raises
\* ProcedureError, and the END is accepted otherwise
C29_ProcEndChecksOut ==
    [][(ChecksEndOf({"PROC"}) /\ tc.block_stack # <<>>
                              /\ tc.block_origin_stack # <<>>) =>
          LET n == Len(OutTypes)
              k == Len(tc.stack)
          IN IF k < n
             THEN pc' = "rejected" /\ err'.kind = "NotEnoughTokens"
             ELSE IF \E i \in 1..n : ~TypeEq(tc.stack[k + 1 - i][2], OutTypes[i])
             THEN /\ pc' = "rejected"
                  /\ err'.kind = "Reporting" /\ err'.cause = "InvalidType"
             ELSE IF k > n
             THEN pc' = "rejected" /\ err'.kind = "ProcedureError"
             ELSE pc' = "check"]_vars

\* the index of a token in a list that holds it
IndexIn(ins, t) == CHOOSE i \in 1..Len(ins) : ins[i] = t

\* the tokens of the instruction list between the opener of the proc that
\* the END token e closed and e
BetweenProcAndEnd(hp, fl, ins, e) ==
    SubSeq(ins, IndexIn(ins, fl[hp[e].ref].root) + 1, IndexIn(ins, e) - 1)

\* no token of the list is a WORD that spells the name
NoWordNamed(hp, toks, name) ==
    \A i \in 1..Len(toks) :
        ~(hp[toks[i]].type = "OP_WORD" /\ hp[toks[i]].val = name)

\* C30: when the END of a proc definition has been accepted, no token of
\* the procedure body is a WORD spelling the procedure's name (each was
\* replaced by a CALL), and the instruction list between the PROC and its
\* END holds the very tokens of the body, so no such WORD is left there
C30_BodyCallsInList ==
    [][(/\ pc = "send" /\ heap[Head(tokens)].type = "OP_END"
        /\ TopKind \in {"PROC", "IN", "OUT"}
        /\ pc' # "error")
          => LET e    == Head(tokens)
                 pr   == procs'[heap'[flows'[heap'[e].ref].root].ref]
                 list == BetweenProcAndEnd(heap', flows', instructions', e)
             IN /\ NoWordNamed(heap', pr.body, pr.name)
                /\ list = pr.body
                /\ NoWordNamed(heap', list, pr.name)]_vars

\* the type checker is about to take a ++ or a -- with a value to pop
ChecksUnary ==
    /\ pc \in {"parsed", "check"} /\ pc' # "reflow"
    /\ pointer < Len(instructions)
    /\ Instr(pointer + 1).type \in {"OP_INCREMENT", "OP_DECREMENT"}
    /\ tc.stack # <<>>

\* C31: ++ and -- pop one value typed INT, CHAR or pointer and push one
\* value of the very type popped, for a pointer with the pointee and the
\* depth it had; a value of any other type is refused with InvalidType
C31_UnaryKeepsType ==
    [][ChecksUnary =>
          LET a == TTop(tc)[2] IN
          IF a = INT \/ a = CHAR \/ IsPtr(a)
          THEN /\ pc' = "check"
               /\ Len(tc'.stack) = Len(tc.stack)
               /\ TTop(tc')[2] = a
          ELSE RefusesType]_vars

\* the number of values the step over token t takes from the stack
StackNeed(t) ==
    LET k == heap[t].type IN
    CASE k \in {"OP_DUMP", "OP_UDUMP", "OP_CDUMP", "OP_HEXDUMP", "OP_DROP",
                "OP_DUP", "OP_EXIT", "OP_INCREMENT", "OP_DECREMENT", "CAST",
                "OP_LOAD", "OP_LOAD16", "OP_LOAD32", "OP_LOAD64",
                "OP_SYSCALL"} -> 1
      [] k \in {"OP_PLUS", "OP_MINUS", "OP_MUL", "OP_DIV", "OP_MOD",
                "OP_DIVMOD", "OP_BLSH", "OP_BRSH", "OP_BAND", "OP_BOR",
                "OP_BXOR", "OP_EQ", "OP_NE", "OP_GT", "OP_GE", "OP_LT",
                "OP_LE", "OP_SWAP", "OP_OVER", "OP_DUP2", "OP_STORE",
                "OP_STORE16", "OP_STORE32", "OP_STORE64"} -> 2
      [] k \in {"OP_ROT", "OP_RROT"} -> 3
      [] k = "OP_SWAP2" -> 4
      [] k \in {"OP_SYSCALL1", "OP_SYSCALL2", "OP_SYSCALL3", "OP_SYSCALL4",
                "OP_SYSCALL5", "OP_SYSCALL6", "OP_RSYSCALL1", "OP_RSYSCALL2",
                "OP_RSYSCALL3", "OP_RSYSCALL4", "OP_RSYSCALL5",
                "OP_RSYSCALL6"} -> SyscallArgs(k) + 1
      [] k = "OP_DO" /\ heap[t].vk = "flow" ->
            IF heap[flows[heap[t].ref].root].type \in {"OP_LET", "OP_WITH"}
            THEN 0 ELSE 1
      [] k \in {"OP_LET", "OP_WITH"} /\ heap[t].vk = "flow" ->
            IF flows[heap[t].ref].hasdata THEN Len(flows[heap[t].ref].data) ELSE 0
      [] k = "CALL" /\ heap[t].val \in DOMAIN tc.procedures ->
            Len(procs[tc.procedures[heap[t].val]].args)
      [] k = "OP_WORD" /\ Scope(tc.locals, heap[t].val, Len(tc.locals)) = 0
                      /\ heap[t].val \in DOMAIN tc.procedures ->
            Len(procs[tc.procedures[heap[t].val]].args)
      [] k = "OP_END" /\ heap[t].vk = "flow"
                     /\ heap[flows[heap[t].ref].root].type = "PROC"
                     /\ tc.block_stack # <<>> /\ tc.block_origin_stack # <<>> ->
            Len(procs[heap[flows[heap[t].ref].root].ref].out)
      [] OTHER -> 0

\* the type checker is about to take a token
ChecksToken ==
    /\ pc \in {"parsed", "check"} /\ pc' # "reflow"
    /\ pointer < Len(instructions)

\* C32: a step of the type checker that takes values from the stack raises
\* NotEnoughTokens when the stack holds fewer values than the step takes,
\* and a DO does not fail with an IndexError on a stack that became empty
C32_ShortStackIsNotEnoughTokens ==
    [][ChecksToken =>
          /\ Len(tc.stack) < StackNeed(instructions[pointer + 1])
                => (pc' = "rejected" /\ err'.kind = "NotEnoughTokens")
          /\ (Instr(pointer + 1).type = "OP_DO" /\ tc.block_stack # <<>>)
                => ~(pc' = "rejected" /\ err'.kind = "IndexError")]_vars

\* an END is sent that closes a LET or WITH block outside a definition
ClosesLet ==
    /\ pc = "send" /\ heap[Head(tokens)].type = "OP_END"
    /\ TopKind \in {"OP_LET", "OP_WITH"}
    /\ in_preproc = 0

\* the opener of the block on top of the stack, and its DO
LetOpenerOnTop == stack[Len(stack)][1]
DoOfLet == flows[heap[LetOpenerOnTop].ref].next

\* C33: the END of a LET or WITH block outside a macro definition, also of
\* a block that came from the expansion of a macro and of the second block
\* of one expansion, removes from the instruction list exactly the names
\* between the opener and its DO and stores them, in order, as the data of
\* the opener; opener, DO, body and END stay in the list in their order
C33_LetEndRemovesNames ==
    [][(ClosesLet /\ pc' # "error") =>
          LET a == IndexIn(instructions, LetOpenerOnTop)
              b == IndexIn(instructions, DoOfLet)
          IN /\ DoOfLet # None /\ a < b
             /\ flows'[heap[LetOpenerOnTop].ref].data = SubSeq(instructions, a + 1, b - 1)
             /\ instructions' = SubSeq(instructions, 1, a)
                                  \o SubSeq(instructions, b, Len(instructions))]_vars

\* C34: the type checker has a case for swap2: on four values or more it
\* exchanges the two pairs on top (d c b a becomes b a d c, a on top) and
\* leaves everything under them, on fewer it raises NotEnoughTokens; it
\* never ends in the RuntimeError of a token without case
C34_Swap2Handled ==
    [][(ChecksToken /\ Instr(pointer + 1).type = "OP_SWAP2") =>
          LET n == Len(tc.stack) IN
          IF n >= 4
          THEN /\ pc' = "check"
               /\ tc'.stack = SubSeq(tc.stack, 1, n - 4)
                                \o <<tc.stack[n - 1], tc.stack[n],
                                     tc.stack[n - 3], tc.stack[n - 2]>>
          ELSE pc' = "rejected" /\ err'.kind = "NotEnoughTokens"]_vars

\* C35: a proc definition leaves the stack around it alone: the body is
\* checked on a stack of its own that starts empty, and when the END of
\* the proc is accepted the stack is again the one the PROC token found,
\* which is the snapshot on top of block_origin_stack
C35_ProcRestoresStack ==
    [][/\ (ChecksToken /\ Instr(pointer + 1).type = "PROC" /\ pc' = "check")
          => (tc'.stack = <<>> /\ Last(tc'.block_origin_stack) = tc.stack)
       /\ (ChecksEndOf({"PROC"}) /\ pc' = "check")
          => tc'.stack = Last(tc.block_origin_stack)]_vars

\* the types of a stack, bottom to top
TypesOf(stk) == [i \in 1..Len(stk) |-> stk[i][2]]

\* C36: the types a call pushes on the stack of the caller, bottom to top,
\* are the types the body of the procedure had to leave, bottom to top,
\* when its END was accepted: both are the declared out types T1..Tn in
\* their order, also when the Ti differ
C36_CallPushesWhatBodyLeft ==
    [][/\ (ChecksEndOf({"PROC"}) /\ pc' = "check")
          => TypesOf(tc.stack) = OutTypes
       /\ (ChecksToken /\ Instr(pointer + 1).type = "CALL" /\ pc' = "check"
            /\ Instr(pointer + 1).val \in DOMAIN tc.procedures)
          => LET pr == procs[tc.procedures[Instr(pointer + 1).val]]
                 n  == Len(pr.out)
                 k  == Len(tc'.stack)
             IN /\ k >= n
                /\ TypesOf(SubSeq(tc'.stack, k - n + 1, k))
                     = [i \in 1..n |-> pr.out[i][2]]]_vars

\* two stacks of the same length and, place by place, of equal types
SameTypes(s, t) ==
    /\ Len(s) = Len(t)
    /\ \A i \in 1..Len(s) : TypeEq(s[i][2], t[i][2])

\* the type checker accepts the token that ends a branch body of an if
\* chain: an ELIF, an ELSE or the END of the chain
EndsBranch ==
    /\ ChecksToken /\ pc' = "check"
    /\ Instr(pointer + 1).type \in {"OP_ELIF", "OP_ELSE", "OP_END"}
    /\ Instr(pointer + 1).vk = "flow"
    /\ heap[flows[Instr(pointer + 1).ref].root].type = "OP_IF"
    /\ tc.block_stack # <<>> /\ tc.block_origin_stack # <<>>

\* the chain of the token about to be taken has an ELSE
ChainHasElse ==
    flows[heap[flows[Instr(pointer + 1).ref].root].ref].haselse

\* C37: in an if chain the type checker accepts, with an ELSE every branch
\* body leaves the stack the branch before it left (same length, equal
\* types) and the stack after the END is that stack; without an ELSE
\* every branch body leaves a stack equal in length and types to the
\* snapshot taken at the IF
C37_BranchesAgree ==
    [][EndsBranch =>
          IF ChainHasElse
          THEN /\ heap[flows[Instr(pointer + 1).ref].prev].type # "OP_IF"
                    => SameTypes(tc.stack, Last(tc.block_stack))
               /\ Instr(pointer + 1).type = "OP_END" => tc'.stack = tc.stack
          ELSE SameTypes(tc.stack, Last(tc.block_origin_stack))]_vars

=============================================================================
